---------------------------- MODULE Spec2Model ----------------------------
(***************************************************************************)
(* TLA+ model of the light-cycle simulation core: GameEngine               *)
(* (engine/gameEngine.ts), BikePhysics (engine/bike.ts) and Arena          *)
(* (engine/arena.ts).                                                      *)
(*                                                                         *)
(* Numbers.  The program computes in IEEE doubles; the model computes on   *)
(* fixed-point grids:                                                      *)
(*   lengths  (positions, radii, grind offset, speed)  1 unit = 1/PosScale *)
(*   health                                            1 unit = 1/HealthScale *)
(*   brake energy                                      1 unit = 1/PosScale *)
(* All literals of the source (0.15, 0.02, 0.3, 1.2, 156, ...) are exact   *)
(* on these grids.  Vector lengths are integer square roots taken at a     *)
(* 100 times finer resolution.  sin/cos of a multiple of PI/2 are 0/+-1    *)
(* plus the sign of the floating-point residual (see Direction).           *)
(*                                                                         *)
(* Specifications.  Spec: the engine with small configurations and every   *)
(* method but the read-only getters.  StraightSpec: DEFAULT_CONFIG and     *)
(* update() only, the straight run into the wall.  AliasSpec: update,      *)
(* reset, getBikeState and a caller that writes to the object it got.      *)
(* PhysSpec: BikePhysics.checkCollisions applied once to a candidate and a *)
(* trail drawn from bounded sets.                                          *)
(***************************************************************************)
EXTENDS Integers, Sequences, FiniteSets, TLC

\* ------------------------------------------------------------------ bounds
MaxFrames == 10
MaxQueue == 2
MaxCalls == 3
StraightFrames == 710
LapFrames == 2420
WallFrames == 8
GraceRunFrames == 12
MaxShape == 14

\* ------------------------------------------------------------- fixed point
PosScale == 200
HealthScale == 60 * 30

Abs(x) == IF x < 0 THEN -x ELSE x
Sign(x) == IF x > 0 THEN 1 ELSE IF x < 0 THEN -1 ELSE 0
Min(a, b) == IF a < b THEN a ELSE b
Max(a, b) == IF a > b THEN a ELSE b
Clamp(v, lo, hi) == Max(lo, Min(hi, v))
RoundDiv(a, b) == (2 * a + b) \div (2 * b)
CeilDiv(a, b) == (a + b - 1) \div b

RECURSIVE SqrtIter(_, _, _)
SqrtIter(n, lo, hi) ==
  IF lo >= hi THEN lo
  ELSE LET mid == (lo + hi + 1) \div 2
       IN  IF mid * mid <= n THEN SqrtIter(n, mid, hi)
                             ELSE SqrtIter(n, lo, mid - 1)
ISqrt(n) == SqrtIter(n, 0, Min(n, 46340))

Vec(x, z) == [x |-> x, z |-> z]
Dot(a, b) == a.x * b.x + a.z * b.z
Sub(a, b) == Vec(a.x - b.x, a.z - b.z)
Dist2(a, b) == Dot(Sub(a, b), Sub(a, b))
\* length of v in hundredths of a grid unit
Len100(v) == ISqrt(10000 * Dot(v, v))

\* --------------------------------------------------- literals of the source
bikeHalfWidth == (15 * PosScale) \div 100
safetyMargin == (2 * PosScale) \div 100
segmentsToSkip == 10
minSegLength == PosScale \div 100
passMargin == PosScale \div 100
safeExtra == PosScale \div 100
distanceThreshold == (3 * PosScale) \div 10
headOnGrind == (2 * PosScale) \div 100
parallelGrind == PosScale \div 100
maxGrind == (3 * PosScale) \div 10
collisionDamage == (12 * HealthScale) \div 10
maxHealth == 156 * HealthScale
healthFloor == -10 * HealthScale

\* ------------------------------------------------------------ configurations
\* GameConfig records handed to the constructor, in grid units.  TightZone has
\* a safe zone that closes in within a few frames and kills quickly; WideZone
\* has a zone that always contains the whole arena.  MidZone has a zone the
\* bike can leave and re-enter with a U-turn, a turn delay of one frame, a
\* longer regeneration delay, and a zone width that is not a multiple of
\* ringShrinkTime (the quotient ringShrinkPerFrame is then rounded, as the
\* double division rounds it).  OpenField has the closing zone of TightZone
\* with half its damage, in an arena whose walls are out of reach, so the bike
\* can stay outside the zone for several frames without touching a wall.
TightZone ==
  [ bikeSpeed |-> 40, turnDelayFrames |-> 2, boundaryLimit |-> 75,
    regenDelayFrames |-> 1, trailWidth |-> 6, trailMaxFrames |-> 3,
    ringInitialRadius |-> 50, ringMinRadius |-> 10, ringShrinkTime |-> 4,
    ringDepletionFrames |-> 1,
    slowRegenRate |-> HealthScale, fastRegenRate |-> 5 * HealthScale,
    graceFrames |-> 3,
    brakeMaxEnergy |-> 200, brakeDepletionRate |-> 100,
    brakeRechargeRate |-> 50, brakeRechargeDelayFrames |-> 2,
    brakeSpeedReductionPct |-> 50 ]

WideZone ==
  [ TightZone EXCEPT !.ringInitialRadius = 200, !.ringMinRadius = 160 ]

MidZone ==
  [ TightZone EXCEPT !.turnDelayFrames = 1, !.regenDelayFrames = 3,
                     !.ringInitialRadius = 57, !.ringMinRadius = 50,
                     !.ringShrinkTime = 3 ]

OpenField ==
  [ TightZone EXCEPT !.boundaryLimit = 500, !.ringDepletionFrames = 2 ]

Configs == {TightZone, WideZone, MidZone, OpenField}

\* WideZone with a brake that takes seven updates to use up its energy
\* (200, 170, ..., 20, 0), for the runs that brake
SlowBrake == [ WideZone EXCEPT !.brakeDepletionRate = 30 ]

\* graceFrames < regenDelayFrames as in DEFAULT_CONFIG (45 < 60), with a wall
\* that the shrinking zone leaves just outside
LateRegen ==
  [ TightZone EXCEPT !.turnDelayFrames = 1, !.ringInitialRadius = 46,
                     !.ringMinRadius = 44, !.ringShrinkTime = 2,
                     !.graceFrames = 8, !.regenDelayFrames = 9 ]

\* a slow bike in a small arena: the step is shorter than two head-on grind
\* increments, and the walls are inside the safe zone
NarrowArena ==
  [ WideZone EXCEPT !.bikeSpeed = 6, !.turnDelayFrames = 1, !.boundaryLimit = 42 ]

\* DEFAULT_CONFIG of config.ts on the grid: every field is exact but the
\* quotient ringShrinkPerFrame = 4400 / 16200 of a grid unit, which rounds to
\* 0, so the zone of a run with this configuration keeps its initial radius
\* (in the source it has shrunk by 0.94 of 25 when the straight run reaches
\* the wall).  It is used for the straight run to the wall only.
DEFAULT_CONFIG ==
  [ bikeSpeed |-> (65 * PosScale) \div 1000, turnDelayFrames |-> 20,
    boundaryLimit |-> (44975 * PosScale) \div 1000,
    regenDelayFrames |-> 60, trailWidth |-> (3 * PosScale) \div 100,
    trailMaxFrames |-> 7200,
    ringInitialRadius |-> 25 * PosScale, ringMinRadius |-> 3 * PosScale,
    ringShrinkTime |-> 16200, ringDepletionFrames |-> 1800,
    slowRegenRate |-> (3 * HealthScale) \div 100,
    fastRegenRate |-> (2 * HealthScale) \div 10,
    graceFrames |-> 45,
    brakeMaxEnergy |-> 100 * PosScale,
    brakeDepletionRate |-> (33 * PosScale) \div 100,
    brakeRechargeRate |-> (165 * PosScale) \div 1000,
    brakeRechargeDelayFrames |-> 60,
    brakeSpeedReductionPct |-> 50 ]

\* ------------------------------------------------------------------- state
VARIABLES
  config,                \* GameEngine.config (constructor parameter)
  position,              \* bikeState.position (x, z; y is always 0)
  rotation,              \* bikeState.rotation, in quarter turns (PI/2)
  trail,                 \* bikeState.trail
  alive,                 \* bikeState.alive
  lastTurnFrame,         \* bikeState.lastTurnFrame
  health,                \* bikeState.health
  grindOffset,           \* bikeState.grindOffset
  graceFramesRemaining,  \* bikeState.graceFramesRemaining
  brakeEnergy,           \* bikeState.brakeEnergy
  brakeRechargeDelay,    \* bikeState.brakeRechargeDelay
  isBraking,             \* bikeState.isBraking
  turnQueue,             \* GameEngine.turnQueue
  frameCount,            \* GameEngine.frameCount
  lastHitFrame,          \* GameEngine.lastHitFrame
  lastDamageType,        \* GameEngine.lastDamageType
  outsideRingFrames,     \* GameEngine.outsideRingFrames
  trailFrames,           \* GameEngine.trailFrames
  newTrailSegments,      \* GameEngine.newTrailSegments
  segmentsToRemove,      \* GameEngine.segmentsToRemove
  currentRingRadius,     \* Arena.currentRingRadius
  grindDepthMap,         \* BikePhysics.grindDepthMap
  requested,             \* history: directions passed to queueTurn since construction/reset
  applied,               \* history: turns applied by update since construction/reset
  queuedAt,              \* history: per queued turn, frame and queue position at queueTurn
  last,                  \* history: the last call and what its update observed
  calls,                 \* history: number of calls other than update
  returned,              \* the object handed out by the last getBikeState()
  probe                  \* arguments and result of a direct call of checkCollisions

engineVars ==
  << position, rotation, trail, alive, lastTurnFrame, health, grindOffset,
     graceFramesRemaining, brakeEnergy, brakeRechargeDelay, isBraking,
     turnQueue, frameCount, lastHitFrame, lastDamageType, outsideRingFrames,
     trailFrames, newTrailSegments, segmentsToRemove, currentRingRadius,
     grindDepthMap >>

vars ==
  << config, engineVars, requested, applied, queuedAt, last, calls, returned,
     probe >>

\* a normal is the vector (x, z) * scale / n100 in hundredths of a grid unit:
\* n100 is the length of (x, z) in hundredths and scale the length of the
\* normal in grid units (PosScale for a unit vector)
NullNormal == [x |-> 0, z |-> 0, n100 |-> 0, scale |-> 0]

\* no object has been handed out; no direct call has been made
NoObject ==
  [held |-> FALSE, sharesPosition |-> FALSE, sharesTrail |-> FALSE, health |-> 0]
NoProbe ==
  [ position |-> Vec(0, 0), trail |-> << >>, grindOffset |-> 0,
    result |-> [hit |-> FALSE, normal |-> NullNormal, corrected |-> Vec(0, 0)] ]
EmptyMap == [k \in {} |-> 0]

\* --------------------------------------------------------------------- Arena
\* the quotient is rounded to the grid, as the double division rounds it to
\* 53 bits: ringShrinkTime times the result need not be the zone width
ringShrinkPerFrame ==
  (config.ringInitialRadius - config.ringMinRadius) \div config.ringShrinkTime

\* mutant: the depletion is a share of maxHealth
ringDepletionOfMaxHealth == maxHealth \div config.ringDepletionFrames

ringDepletionPerFrame == (100 * HealthScale) \div config.ringDepletionFrames

isPositionOutsideRing(pos) ==
  Dot(pos, pos) > currentRingRadius * currentRingRadius

\* mutant: the radius is not floored at ringMinRadius
shrinkRingNoFloor(r) ==
  IF r > config.ringMinRadius THEN r - ringShrinkPerFrame ELSE r

shrinkRing(r) ==
  IF r > config.ringMinRadius
    THEN Max(config.ringMinRadius, r - ringShrinkPerFrame)
    ELSE r

\* --------------------------------------------------------------- BikePhysics
clampToBoundary(pos) ==
  LET limit == config.boundaryLimit - bikeHalfWidth
  IN  Vec(Max(-limit, Min(limit, pos.x)), Max(-limit, Min(limit, pos.z)))

\* `x${Math.sign(position.x)}` and `z${Math.sign(position.z)}`
WallKey(axis, sgn) ==
  IF axis = "x" THEN (IF sgn > 0 THEN "x1" ELSE "x-1")
                ELSE (IF sgn > 0 THEN "z1" ELSE "z-1")

\* this.grindDepthMap[wallKey] || 0
GrindDepth(key) ==
  IF key \in DOMAIN grindDepthMap THEN grindDepthMap[key] ELSE 0

\* the two boundary tests of checkCollisions, x first, then z
CheckBoundary(pos) ==
  LET limit == config.boundaryLimit - bikeHalfWidth
      hx == Abs(pos.x) > limit
      hz == Abs(pos.z) > limit
  IN  [ hit |-> hx \/ hz,
        cx |-> IF hx THEN Sign(pos.x) * limit ELSE pos.x,
        cz |-> IF hz THEN Sign(pos.z) * limit ELSE pos.z,
        normal |-> IF hz THEN [x |-> 0, z |-> -Sign(pos.z), n100 |-> 100,
                                scale |-> PosScale]
                   ELSE IF hx THEN [x |-> -Sign(pos.x), z |-> 0, n100 |-> 100,
                                    scale |-> PosScale]
                   ELSE NullNormal,
        wallKey |-> IF hz THEN WallKey("z", Sign(pos.z))
                    ELSE IF hx THEN WallKey("x", Sign(pos.x))
                    ELSE "" ]

collisionDist == bikeHalfWidth + config.trailWidth \div 2 + safetyMargin

\* closest point of the segment start-end to pos (clamped projection)
ClosestPoint(pos, start, end) ==
  LET seg == Sub(end, start)
      len2 == Dot(seg, seg)
      t == Clamp(Dot(Sub(pos, start), seg), 0, len2)
  IN  Vec(start.x + RoundDiv(seg.x * t, len2),
          start.z + RoundDiv(seg.z * t, len2))

\* mutant: the grind depth lets the bike pass also when no wall was hit
TrailStepAnyPass(pos, tr, grind, wallKey, i, acc) ==
  LET start == tr[i + 1]
      end == tr[i + 2]
      seg == Sub(end, start)
  IN  IF Dot(seg, seg) < minSegLength * minSegLength THEN acc
      ELSE
        LET closest == ClosestPoint(pos, start, end)
            pushDir == Sub(pos, closest)
            d2 == Dot(pushDir, pushDir)
            allowPass == grind > GrindDepth(wallKey) + passMargin
        IN  IF ~(d2 < collisionDist * collisionDist /\ ~allowPass) THEN acc
            ELSE IF d2 = 0 THEN [acc EXCEPT !.hit = TRUE]
            ELSE
              LET n100 == Len100(pushDir)
                  safe == Vec(closest.x + RoundDiv(pushDir.x * (collisionDist + safeExtra) * 100, n100),
                              closest.z + RoundDiv(pushDir.z * (collisionDist + safeExtra) * 100, n100))
                  currentDist2 == Dist2(Vec(acc.cx, acc.cz), pos)
                  newDist2 == Dist2(safe, pos)
              IN  IF newDist2 > currentDist2
                    THEN [acc EXCEPT !.hit = TRUE, !.cx = safe.x, !.cz = safe.z,
                                     !.normal = [x |-> pushDir.x, z |-> pushDir.z,
                                                 n100 |-> n100,
                                                 scale |-> collisionDist + safeExtra]]
                    ELSE [acc EXCEPT !.hit = TRUE]

\* one iteration of the trail loop of checkCollisions, for segment i (0-based).
\* pushDir.multiplyScalar(collisionDist + 0.01) scales pushDir in place, so the
\* normal of a trail contact has that length and not length 1
TrailStep(pos, tr, grind, wallKey, i, acc) ==
  LET start == tr[i + 1]
      end == tr[i + 2]
      seg == Sub(end, start)
  IN  IF Dot(seg, seg) < minSegLength * minSegLength THEN acc
      ELSE
        LET closest == ClosestPoint(pos, start, end)
            pushDir == Sub(pos, closest)
            d2 == Dot(pushDir, pushDir)
            allowPass == wallKey # "" /\ grind > GrindDepth(wallKey) + passMargin
        IN  IF ~(d2 < collisionDist * collisionDist /\ ~allowPass) THEN acc
            ELSE IF d2 = 0 THEN [acc EXCEPT !.hit = TRUE]
            ELSE
              LET n100 == Len100(pushDir)
                  safe == Vec(closest.x + RoundDiv(pushDir.x * (collisionDist + safeExtra) * 100, n100),
                              closest.z + RoundDiv(pushDir.z * (collisionDist + safeExtra) * 100, n100))
                  currentDist2 == Dist2(Vec(acc.cx, acc.cz), pos)
                  newDist2 == Dist2(safe, pos)
              IN  IF newDist2 > currentDist2
                    THEN [acc EXCEPT !.hit = TRUE, !.cx = safe.x, !.cz = safe.z,
                                     !.normal = [x |-> pushDir.x, z |-> pushDir.z,
                                                 n100 |-> n100,
                                                 scale |-> collisionDist + safeExtra]]
                    ELSE [acc EXCEPT !.hit = TRUE]

\* the trail loop of checkCollisions, iterations i .. n-1 in order, starting
\* from acc. The range is run as its first half followed by its second half,
\* which is the same sequence of iterations; an iteration that leaves hit
\* false has changed nothing
RECURSIVE TrailLoop(_, _, _, _, _, _, _)
TrailLoop(pos, tr, grind, wallKey, i, n, acc) ==
  IF i >= n THEN acc
  ELSE IF n - i = 1 THEN TrailStep(pos, tr, grind, wallKey, i, acc)
  ELSE LET mid == (i + n) \div 2
           first == TrailLoop(pos, tr, grind, wallKey, i, mid, acc)
       IN  IF first.hit THEN TrailLoop(pos, tr, grind, wallKey, mid, n, first)
                        ELSE TrailLoop(pos, tr, grind, wallKey, mid, n, acc)

\* mutant: no recent segment is skipped but the phantom one
checkCollisionsSkipOne(pos, tr, grind) ==
  LET b == CheckBoundary(pos)
      maxSegmentsToCheck == Max(0, Len(tr) - 1 - 1)
      r == TrailLoop(pos, tr, grind, b.wallKey, 0, maxSegmentsToCheck, b)
  IN  [hit |-> r.hit, normal |-> r.normal, corrected |-> Vec(r.cx, r.cz)]

\* BikePhysics.checkCollisions(position, trail, bikeState)
checkCollisions(pos, tr, grind) ==
  LET b == CheckBoundary(pos)
      maxSegmentsToCheck == Max(0, Len(tr) - segmentsToSkip - 1)
      r == TrailLoop(pos, tr, grind, b.wallKey, 0, maxSegmentsToCheck, b)
  IN  [hit |-> r.hit, normal |-> r.normal, corrected |-> Vec(r.cx, r.cz)]

\* ---------------------------------------------------------------- GameEngine
\* mutant: the brake request is not cancelled when the energy is used up
updateBrakeSystemNoFlip(b, e, d) ==
  IF b /\ e > 0
    THEN [ isBraking |-> b,
           brakeEnergy |-> Max(0, e - config.brakeDepletionRate),
           brakeRechargeDelay |-> config.brakeRechargeDelayFrames ]
    ELSE IF d > 0
           THEN [isBraking |-> b, brakeEnergy |-> e, brakeRechargeDelay |-> d - 1]
           ELSE [ isBraking |-> b,
                  brakeEnergy |-> Min(config.brakeMaxEnergy, e + config.brakeRechargeRate),
                  brakeRechargeDelay |-> d ]

\* mutant: the depleted energy is not floored at 0
updateBrakeSystemNoFloor(b, e, d) ==
  IF b /\ e > 0
    THEN [ isBraking |-> b,
           brakeEnergy |-> e - config.brakeDepletionRate,
           brakeRechargeDelay |-> config.brakeRechargeDelayFrames ]
    ELSE LET b2 == IF e <= 0 THEN FALSE ELSE b
         IN  IF d > 0
               THEN [isBraking |-> b2, brakeEnergy |-> e, brakeRechargeDelay |-> d - 1]
               ELSE [ isBraking |-> b2,
                      brakeEnergy |-> Min(config.brakeMaxEnergy, e + config.brakeRechargeRate),
                      brakeRechargeDelay |-> d ]

\* mutant: a depleting update leaves the recharge delay as it was
updateBrakeSystemNoDelay(b, e, d) ==
  IF b /\ e > 0
    THEN [ isBraking |-> b,
           brakeEnergy |-> Max(0, e - config.brakeDepletionRate),
           brakeRechargeDelay |-> d ]
    ELSE LET b2 == IF e <= 0 THEN FALSE ELSE b
         IN  IF d > 0
               THEN [isBraking |-> b2, brakeEnergy |-> e, brakeRechargeDelay |-> d - 1]
               ELSE [ isBraking |-> b2,
                      brakeEnergy |-> Min(config.brakeMaxEnergy, e + config.brakeRechargeRate),
                      brakeRechargeDelay |-> d ]

\* GameEngine.updateBrakeSystem
updateBrakeSystem(b, e, d) ==
  IF b /\ e > 0
    THEN [ isBraking |-> b,
           brakeEnergy |-> Max(0, e - config.brakeDepletionRate),
           brakeRechargeDelay |-> config.brakeRechargeDelayFrames ]
    ELSE LET b2 == IF e <= 0 THEN FALSE ELSE b
         IN  IF d > 0
               THEN [isBraking |-> b2, brakeEnergy |-> e, brakeRechargeDelay |-> d - 1]
               ELSE [ isBraking |-> b2,
                      brakeEnergy |-> Min(config.brakeMaxEnergy, e + config.brakeRechargeRate),
                      brakeRechargeDelay |-> d ]

\* (Math.sin(rotation), Math.cos(rotation)) for rotation = rot * PI/2.  x, z is
\* the axis the bike moves along.  rx, rz is the sign of the component that is
\* zero in exact arithmetic: the double nearest PI/2 is smaller than PI/2, so
\* after rot quarter turns the heading is short of the axis by a residual of
\* the order 1e-16 (Math.cos(Math.PI / 2) = 6.1e-17), which is lost when added
\* to a position but decides the sign of a dot product with a wall normal.
Direction(rot) ==
  LET m == rot % 4
      mx == IF m = 1 THEN 1 ELSE IF m = 3 THEN -1 ELSE 0
      mz == IF m = 0 THEN 1 ELSE IF m = 2 THEN -1 ELSE 0
  IN  [x |-> mx, z |-> mz, rx |-> -Sign(rot) * mz, rz |-> Sign(rot) * mx]

\* sign of direction.dot(normal)
Push(dir, normal) ==
  LET main == dir.x * normal.x + dir.z * normal.z
  IN  IF main # 0 THEN Sign(main)
      ELSE Sign(dir.rx * normal.x + dir.rz * normal.z)

\* mutant: the reduction also applies when the energy is used up
CurrentSpeedAtZero(b, e) ==
  IF b
    THEN LET energyUsed == config.brakeMaxEnergy - e
         IN  (config.bikeSpeed
                * (100 * config.brakeMaxEnergy
                     - energyUsed * (100 - config.brakeSpeedReductionPct)))
             \div (100 * config.brakeMaxEnergy)
    ELSE config.bikeSpeed

\* the step length of this update (progressive braking)
CurrentSpeed(b, e) ==
  IF b /\ e > 0
    THEN LET energyUsed == config.brakeMaxEnergy - e
         IN  (config.bikeSpeed
                * (100 * config.brakeMaxEnergy
                     - energyUsed * (100 - config.brakeSpeedReductionPct)))
             \div (100 * config.brakeMaxEnergy)
    ELSE config.bikeSpeed

\* mutant: the grind offset is not capped at 0.3
GrindAfterNoCap(g, contact, headOn) ==
  IF contact
    THEN g + (IF headOn THEN headOnGrind ELSE parallelGrind)
    ELSE 0

\* mutant: a contact that is not head-on adds as much as a head-on one
GrindAfterSame(g, contact, headOn) ==
  IF contact THEN Min(g + headOnGrind, maxGrind) ELSE 0

\* grindOffset after the collision damage block of update
GrindAfter(g, contact, headOn) ==
  IF contact
    THEN Min(g + (IF headOn THEN headOnGrind ELSE parallelGrind), maxGrind)
    ELSE 0

\* newPosition.add(normal.multiplyScalar(-grindOffset))
AddGrind(pos, normal, grind) ==
  Vec(pos.x - RoundDiv(grind * normal.x * 100 * normal.scale, normal.n100 * PosScale),
      pos.z - RoundDiv(grind * normal.z * 100 * normal.scale, normal.n100 * PosScale))

\* mutant: the turn delay is not checked
TurnDueNoDelay(frame) == Len(turnQueue) > 0

\* mutant: the turn delay is compared with > in place of >=
TurnDueLate(frame) ==
  /\ frame - lastTurnFrame > config.turnDelayFrames
  /\ Len(turnQueue) > 0

\* canTurn && turnQueue.length > 0
TurnDue(frame) ==
  /\ frame - lastTurnFrame >= config.turnDelayFrames
  /\ Len(turnQueue) > 0

\* while (trailFrames.length > 0 && frameCount - trailFrames[0] > trailMaxFrames)
RECURSIVE TrimByAge(_, _, _, _)
TrimByAge(tr, tf, frame, removed) ==
  IF Len(tf) > 0 /\ frame - tf[1] > config.trailMaxFrames
    THEN TrimByAge(IF Len(tr) > 0 THEN Tail(tr) ELSE tr, Tail(tf), frame, removed + 1)
    ELSE [trail |-> tr, trailFrames |-> tf, removed |-> removed]

maxAllowedTrailLength == CeilDiv(config.trailMaxFrames, 60) * 4

\* mutant: the trail is not cut down to maxAllowedTrailLength
TrimByCountNone(tr, tf, removed) ==
  [trail |-> tr, trailFrames |-> tf, removed |-> removed]

\* while (trail.length > maxAllowedTrailLength)
RECURSIVE TrimByCount(_, _, _)
TrimByCount(tr, tf, removed) ==
  IF Len(tr) > maxAllowedTrailLength
    THEN TrimByCount(Tail(tr), IF Len(tf) > 0 THEN Tail(tf) ELSE tf, removed + 1)
    ELSE [trail |-> tr, trailFrames |-> tf, removed |-> removed]

\* mutant: the bike dies only when the countdown has gone below 0
GracePeriodLinger(h, g, damaged) ==
  IF h <= 0
    THEN LET g2 == IF g <= 0 THEN config.graceFrames
                   ELSE IF damaged THEN g - 3 ELSE g - 1
         IN  [grace |-> g2, alive |-> ~(g2 < 0)]
    ELSE [grace |-> 0, alive |-> TRUE]

\* mutant: no grace period, the bike dies on the update that empties health
GracePeriodNone(h, g, damaged) ==
  IF h <= 0
    THEN [grace |-> 0, alive |-> FALSE]
    ELSE [grace |-> 0, alive |-> TRUE]

\* mutant: continuing damage does not speed the countdown up
GracePeriodNoHaste(h, g, damaged) ==
  IF h <= 0
    THEN LET g2 == IF g <= 0 THEN config.graceFrames ELSE g - 1
         IN  [grace |-> g2, alive |-> ~(g2 <= 0)]
    ELSE [grace |-> 0, alive |-> TRUE]

\* mutant: the countdown is not reset when health is above 0
GracePeriodNoReset(h, g, damaged) ==
  IF h <= 0
    THEN LET g2 == IF g <= 0 THEN config.graceFrames
                   ELSE IF damaged THEN g - 3 ELSE g - 1
         IN  [grace |-> g2, alive |-> ~(g2 <= 0)]
    ELSE [grace |-> g, alive |-> TRUE]

\* the grace period block of update: h is the health after damage and
\* regeneration, g the countdown at the start of the update, damaged is
\* headOn || isOutsideRing
GracePeriod(h, g, damaged) ==
  IF h <= 0
    THEN LET g2 == IF g <= 0 THEN config.graceFrames
                   ELSE IF damaged THEN g - 3 ELSE g - 1
         IN  [grace |-> g2, alive |-> ~(g2 <= 0)]
    ELSE [grace |-> 0, alive |-> TRUE]

\* mutant: regeneration does not wait for regenDelayFrames after a hit
RegenerateNoDelay(h, headOn, outside, frame, hitFrame, damageType) ==
  IF ~headOn /\ ~outside /\ h < maxHealth
    THEN Min(maxHealth, h + (IF damageType = "zone" THEN config.slowRegenRate
                                                   ELSE config.fastRegenRate))
    ELSE h

\* mutant: the slow and the fast rate are swapped
RegenerateSwapped(h, headOn, outside, frame, hitFrame, damageType) ==
  IF ~headOn /\ ~outside /\ frame - hitFrame > config.regenDelayFrames /\ h < maxHealth
    THEN Min(maxHealth, h + (IF damageType = "zone" THEN config.fastRegenRate
                                                   ELSE config.slowRegenRate))
    ELSE h

\* mutant: the regeneration delay is compared with >= in place of >
RegenerateEarly(h, headOn, outside, frame, hitFrame, damageType) ==
  IF ~headOn /\ ~outside /\ frame - hitFrame >= config.regenDelayFrames /\ h < maxHealth
    THEN Min(maxHealth, h + (IF damageType = "zone" THEN config.slowRegenRate
                                                   ELSE config.fastRegenRate))
    ELSE h

\* mutant: regeneration also applies on a frame with zone damage
RegenerateOutside(h, headOn, outside, frame, hitFrame, damageType) ==
  IF ~headOn /\ frame - hitFrame > config.regenDelayFrames /\ h < maxHealth
    THEN Min(maxHealth, h + (IF damageType = "zone" THEN config.slowRegenRate
                                                   ELSE config.fastRegenRate))
    ELSE h

\* mutant: regeneration is not capped at maxHealth
RegenerateNoCap(h, headOn, outside, frame, hitFrame, damageType) ==
  IF ~headOn /\ ~outside /\ frame - hitFrame > config.regenDelayFrames /\ h < maxHealth
    THEN h + (IF damageType = "zone" THEN config.slowRegenRate
                                     ELSE config.fastRegenRate)
    ELSE h

\* health after the regeneration block of update
Regenerate(h, headOn, outside, frame, hitFrame, damageType) ==
  IF ~headOn /\ ~outside /\ frame - hitFrame > config.regenDelayFrames /\ h < maxHealth
    THEN Min(maxHealth, h + (IF damageType = "zone" THEN config.slowRegenRate
                                                   ELSE config.fastRegenRate))
    ELSE h

\* the frames at which the waypoints of the trail were appended, after an
\* update at frame that appended a waypoint for a turn (turned) and for the
\* distance travelled (grew) and shifted waypoints off the front: n0 and n1
\* are the lengths of the trail before and after
Born(born, turned, grew, frame, n0, n1) ==
  LET all == born \o (IF turned THEN << frame >> ELSE << >>)
                  \o (IF grew THEN << frame >> ELSE << >>)
      k == n0 + (IF turned THEN 1 ELSE 0) + (IF grew THEN 1 ELSE 0) - n1
  IN  SubSeq(all, k + 1, Len(all))

\* the record of a call: the method, alive, health and the brake fields
\* before it, the locals
\* of an update (false for the other methods), and the history kept across
\* calls (cleared by reset): the most recent damage event and whether it was
\* a head-on hit and zone damage in one update, the number of updates of a
\* living bike, the number of updates in a row through which the brake
\* request stayed in effect, the frame of the
\* update that started the running grace countdown, the length and start
\* health of the current run of zone-damage-only updates, and the number of
\* updates of a living bike since the last one that depleted brake energy
\* (-1 before the first, counted up to brakeRechargeDelayFrames + 1).
\* For the two draining getters: the value returned by this call (retSegs,
\* retCount), the events due to it, that is the ones update() produced since
\* the previous call of the same getter or the last reset (dueSegs, dueCount,
\* accumulated in pendSegs, pendCount), whether a reset discarded undelivered
\* events since the getter call before this call (segsLost, countLost), and
\* whether the call before this one was the same getter (again).
\* born is, for each waypoint of the trail, the frame at which it was appended;
\* aged and capped tell whether the age loop and the count loop of this update
\* removed anything; grind0 is grindOffset before the call and push the sign
\* of direction.dot(normal) of an update with a contact (0 without one)
CallInfo(op) ==
  [ op |-> op, alive0 |-> alive, health0 |-> health, turned |-> FALSE,
    hit |-> FALSE, contact |-> FALSE, headOn |-> FALSE, outside |-> FALSE,
    pre |-> health, regenerated |-> FALSE,
    braking0 |-> isBraking, energy0 |-> brakeEnergy, delay0 |-> brakeRechargeDelay,
    damage |-> IF op = "reset" THEN "none" ELSE last.damage,
    tie |-> IF op = "reset" THEN FALSE ELSE last.tie,
    lived |-> IF op = "reset" THEN 0 ELSE last.lived,
    brakeRun |-> IF op = "reset" THEN 0 ELSE last.brakeRun,
    graceStart |-> IF op = "reset" THEN -1 ELSE last.graceStart,
    zoneRun |-> IF op = "reset" THEN 0 ELSE last.zoneRun,
    zoneRunHealth |-> IF op = "reset" THEN 0 ELSE last.zoneRunHealth,
    sinceDeplete |-> IF op = "reset" THEN -1 ELSE last.sinceDeplete,
    retSegs |-> << >>, retCount |-> 0,
    dueSegs |-> IF op = "getNewTrailSegments" THEN last.pendSegs ELSE << >>,
    dueCount |-> IF op = "getSegmentsToRemove" THEN last.pendCount ELSE 0,
    pendSegs |-> IF op \in {"reset", "getNewTrailSegments"} THEN << >>
                                                            ELSE last.pendSegs,
    pendCount |-> IF op \in {"reset", "getSegmentsToRemove"} THEN 0
                                                             ELSE last.pendCount,
    segsLost |-> IF op = "getNewTrailSegments" THEN last.segsLost
                 ELSE \/ last.op # "getNewTrailSegments" /\ last.segsLost
                      \/ op = "reset" /\ last.pendSegs # << >>,
    countLost |-> IF op = "getSegmentsToRemove" THEN last.countLost
                  ELSE \/ last.op # "getSegmentsToRemove" /\ last.countLost
                       \/ op = "reset" /\ last.pendCount # 0,
    again |-> op = last.op /\ op \in {"getNewTrailSegments", "getSegmentsToRemove"},
    born |-> IF op = "reset" THEN << 0 >> ELSE last.born,
    aged |-> FALSE, capped |-> FALSE,
    grind0 |-> grindOffset, push |-> 0 ]

\* ------------------------------------------------------------- construction
\* createInitialBikeState and the field initialisers of GameEngine, Arena and
\* BikePhysics; first the mutant in which the first turn need not wait
createInitialBikeStateTurnReady ==
  [ position |-> Vec(0, 0), rotation |-> 0, trail |-> << Vec(0, 0) >>,
    alive |-> TRUE, lastTurnFrame |-> 0 - config.turnDelayFrames,
    health |-> maxHealth,
    grindOffset |-> 0, graceFramesRemaining |-> 0,
    brakeEnergy |-> config.brakeMaxEnergy, brakeRechargeDelay |-> 0,
    isBraking |-> FALSE ]

createInitialBikeState ==
  [ position |-> Vec(0, 0), rotation |-> 0, trail |-> << Vec(0, 0) >>,
    alive |-> TRUE, lastTurnFrame |-> 0, health |-> maxHealth,
    grindOffset |-> 0, graceFramesRemaining |-> 0,
    brakeEnergy |-> config.brakeMaxEnergy, brakeRechargeDelay |-> 0,
    isBraking |-> FALSE ]

Constructed ==
  /\ position = createInitialBikeState.position
  /\ rotation = createInitialBikeState.rotation
  /\ trail = createInitialBikeState.trail
  /\ alive = createInitialBikeState.alive
  /\ lastTurnFrame = createInitialBikeState.lastTurnFrame
  /\ health = createInitialBikeState.health
  /\ grindOffset = createInitialBikeState.grindOffset
  /\ graceFramesRemaining = createInitialBikeState.graceFramesRemaining
  /\ brakeEnergy = createInitialBikeState.brakeEnergy
  /\ brakeRechargeDelay = createInitialBikeState.brakeRechargeDelay
  /\ isBraking = createInitialBikeState.isBraking
  /\ turnQueue = << >>
  /\ frameCount = 0
  /\ lastHitFrame = 0
  /\ lastDamageType = "null"
  /\ outsideRingFrames = 0
  /\ trailFrames = << >>
  /\ newTrailSegments = << >>
  /\ segmentsToRemove = 0
  /\ currentRingRadius = config.ringInitialRadius
  /\ grindDepthMap = EmptyMap
  /\ requested = << >>
  /\ applied = << >>
  /\ queuedAt = << >>
  /\ last = [ op |-> "new", alive0 |-> TRUE, health0 |-> maxHealth, turned |-> FALSE,
              hit |-> FALSE, contact |-> FALSE, headOn |-> FALSE, outside |-> FALSE,
              pre |-> maxHealth, regenerated |-> FALSE,
              braking0 |-> FALSE, energy0 |-> config.brakeMaxEnergy, delay0 |-> 0,
              damage |-> "none",
              tie |-> FALSE, lived |-> 0, brakeRun |-> 0,
              graceStart |-> -1, zoneRun |-> 0, zoneRunHealth |-> 0,
              sinceDeplete |-> -1,
              retSegs |-> << >>, retCount |-> 0, dueSegs |-> << >>, dueCount |-> 0,
              pendSegs |-> << >>, pendCount |-> 0,
              segsLost |-> FALSE, countLost |-> FALSE, again |-> FALSE,
              born |-> << 0 >>, aged |-> FALSE, capped |-> FALSE,
              grind0 |-> 0, push |-> 0 ]
  /\ calls = 0
  /\ returned = NoObject
  /\ probe = NoProbe

\* new GameEngine(config), for the configurations of the model
Init ==
  /\ config \in Configs
  /\ Constructed

\* ------------------------------------------------------------------- update
\* mutant: the early return comes after the brake system update
UpdateDeadBrake ==
  LET brake == updateBrakeSystem(isBraking, brakeEnergy, brakeRechargeDelay)
  IN  /\ frameCount' = frameCount + 1
      /\ isBraking' = brake.isBraking
      /\ brakeEnergy' = brake.brakeEnergy
      /\ brakeRechargeDelay' = brake.brakeRechargeDelay
      /\ UNCHANGED << position, rotation, trail, alive, lastTurnFrame, health,
                      grindOffset, graceFramesRemaining, turnQueue, lastHitFrame,
                      lastDamageType, outsideRingFrames, trailFrames,
                      newTrailSegments, segmentsToRemove, currentRingRadius,
                      grindDepthMap >>
      /\ UNCHANGED << requested, applied, queuedAt, returned >>
      /\ last' = CallInfo("update")

\* mutant: a dead bike is respawned by the next update
UpdateDeadRespawn ==
  /\ frameCount' = frameCount + 1
  /\ alive' = TRUE
  /\ health' = maxHealth
  /\ graceFramesRemaining' = 0
  /\ UNCHANGED << position, rotation, trail, lastTurnFrame, grindOffset,
                  brakeEnergy, brakeRechargeDelay, isBraking, turnQueue,
                  lastHitFrame, lastDamageType, outsideRingFrames, trailFrames,
                  newTrailSegments, segmentsToRemove, currentRingRadius,
                  grindDepthMap >>
  /\ UNCHANGED << requested, applied, queuedAt, returned >>
  /\ last' = CallInfo("update")

\* update() on a bike that is not alive: frameCount++ and the early return
UpdateDead ==
  /\ frameCount' = frameCount + 1
  /\ UNCHANGED << position, rotation, trail, alive, lastTurnFrame, health,
                  grindOffset, graceFramesRemaining, brakeEnergy,
                  brakeRechargeDelay, isBraking, turnQueue, lastHitFrame,
                  lastDamageType, outsideRingFrames, trailFrames,
                  newTrailSegments, segmentsToRemove, currentRingRadius,
                  grindDepthMap >>
  /\ UNCHANGED << requested, applied, queuedAt, returned >>
  /\ last' = CallInfo("update")

\* The body of update() on a living bike is the composition of the blocks
\* below, in the order of the source.  Each block takes the record u of the
\* locals and new field values computed so far and adds its own.

\* "Update brake system" and "Handle turns"
TurnBlock(frame, brake) ==
  LET turned == TurnDue(frame)
  IN  [ frame |-> frame,
        isBraking |-> brake.isBraking,
        brakeEnergy |-> brake.brakeEnergy,
        brakeRechargeDelay |-> brake.brakeRechargeDelay,
        turned |-> turned,
        turnSegs |-> IF turned /\ Len(trail) > 0
                       THEN << [start |-> trail[Len(trail)], end |-> position] >>
                       ELSE << >>,
        trail |-> IF turned THEN Append(trail, position) ELSE trail,
        trailFrames |-> IF turned THEN Append(trailFrames, frame) ELSE trailFrames,
        turnQueue |-> IF turned THEN Tail(turnQueue) ELSE turnQueue,
        rotation |-> IF turned
                       THEN (IF Head(turnQueue) = "left" THEN rotation + 1
                                                         ELSE rotation - 1)
                       ELSE rotation,
        lastTurnFrame |-> IF turned THEN frame ELSE lastTurnFrame ]

\* mutant: the bike moves along the heading it had before the turn
MoveBlockOldHeading(u) ==
  LET dir == Direction(rotation)
      currentSpeed == CurrentSpeed(u.isBraking, u.brakeEnergy)
      potentialPosition == Vec(position.x + dir.x * currentSpeed,
                               position.z + dir.z * currentSpeed)
  IN  [ dir |-> dir,
        candidate |-> potentialPosition,
        collision |-> checkCollisions(potentialPosition,
                                      Append(u.trail, potentialPosition),
                                      grindOffset) ] @@ u

\* "Move bike" and "Check collisions"
MoveBlock(u) ==
  LET dir == Direction(u.rotation)
      currentSpeed == CurrentSpeed(u.isBraking, u.brakeEnergy)
      potentialPosition == Vec(position.x + dir.x * currentSpeed,
                               position.z + dir.z * currentSpeed)
  IN  [ dir |-> dir,
        candidate |-> potentialPosition,
        collision |-> checkCollisions(potentialPosition,
                                      Append(u.trail, potentialPosition),
                                      grindOffset) ] @@ u

\* mutant: the boundary clamp is applied after the grind offset
DamageBlockClampLast(u) ==
  LET contact == u.collision.hit /\ u.collision.normal # NullNormal
      headOn == contact /\ Push(u.dir, u.collision.normal) < 0
      grind == GrindAfter(grindOffset, contact, headOn)
  IN  [ hit |-> u.collision.hit,
        contact |-> contact,
        push |-> IF contact THEN Push(u.dir, u.collision.normal) ELSE 0,
        headOn |-> headOn,
        grindOffset |-> grind,
        health |-> IF headOn THEN Max(0, health - collisionDamage) ELSE health,
        lastHitFrame |-> IF headOn THEN u.frame ELSE lastHitFrame,
        lastDamageType |-> IF headOn THEN "collision" ELSE lastDamageType,
        position |-> IF contact
                       THEN clampToBoundary(AddGrind(u.collision.corrected,
                                                     u.collision.normal, grind))
                       ELSE clampToBoundary(u.collision.corrected) ] @@ u

\* "Handle collision damage" and "Update position"
DamageBlock(u) ==
  LET contact == u.collision.hit /\ u.collision.normal # NullNormal
      headOn == contact /\ Push(u.dir, u.collision.normal) < 0
      grind == GrindAfter(grindOffset, contact, headOn)
      clamped == clampToBoundary(u.collision.corrected)
  IN  [ hit |-> u.collision.hit,
        contact |-> contact,
        push |-> IF contact THEN Push(u.dir, u.collision.normal) ELSE 0,
        headOn |-> headOn,
        grindOffset |-> grind,
        health |-> IF headOn THEN Max(0, health - collisionDamage) ELSE health,
        lastHitFrame |-> IF headOn THEN u.frame ELSE lastHitFrame,
        lastDamageType |-> IF headOn THEN "collision" ELSE lastDamageType,
        position |-> IF contact THEN AddGrind(clamped, u.collision.normal, grind)
                                ELSE clamped ] @@ u

\* "Handle zone damage", "Handle health regeneration" and "Update arena"
ZoneBlock(u) ==
  LET isOutsideRing == isPositionOutsideRing(u.position)
      damageType == IF isOutsideRing THEN "zone" ELSE u.lastDamageType
      damaged == IF isOutsideRing THEN Max(0, u.health - ringDepletionPerFrame)
                                  ELSE u.health
      regenerated == Regenerate(damaged, u.headOn, isOutsideRing, u.frame,
                                u.lastHitFrame, damageType)
  IN  [ outside |-> isOutsideRing,
        outsideRingFrames |-> IF isOutsideRing THEN outsideRingFrames + 1 ELSE 0,
        lastDamageType |-> damageType,
        pre |-> damaged,
        health |-> regenerated,
        currentRingRadius |-> shrinkRing(currentRingRadius) ] @@ u

\* "Add to trail" and "Trim old trail segments"
TrailBlock(u) ==
  LET n == Len(u.trail)
      grow == n = 0 \/ Dist2(u.position, u.trail[n]) > distanceThreshold * distanceThreshold
      growSegs == IF grow /\ n > 0
                    THEN << [start |-> u.trail[n], end |-> u.position] >>
                    ELSE << >>
      byAge == TrimByAge(IF grow THEN Append(u.trail, u.position) ELSE u.trail,
                         IF grow THEN Append(u.trailFrames, u.frame) ELSE u.trailFrames,
                         u.frame, segmentsToRemove)
      byCount == TrimByCount(byAge.trail, byAge.trailFrames, byAge.removed)
  IN  [ grew |-> grow,
        aged |-> byAge.removed > segmentsToRemove,
        capped |-> byCount.removed > byAge.removed,
        growSegs |-> growSegs,
        newTrailSegments |-> newTrailSegments \o u.turnSegs \o growSegs,
        trail |-> byCount.trail,
        trailFrames |-> byCount.trailFrames,
        segmentsToRemove |-> byCount.removed ] @@ u

\* "Grace period system" and the health floor
GraceBlock(u) ==
  LET grace == GracePeriod(u.health, graceFramesRemaining, u.headOn \/ u.outside)
  IN  [ graceFramesRemaining |-> grace.grace,
        alive |-> grace.alive,
        health |-> Max(healthFloor, u.health) ] @@ u

\* the new value of every field after update() on a living bike, and the
\* locals turned, hit, contact, headOn, outside of the call
updateAlive ==
  GraceBlock(TrailBlock(ZoneBlock(DamageBlock(MoveBlock(
    TurnBlock(frameCount + 1,
              updateBrakeSystem(isBraking, brakeEnergy, brakeRechargeDelay)))))))

\* update() on a living bike
UpdateAlive ==
  \E r \in {updateAlive} :
      /\ frameCount' = r.frame
      /\ isBraking' = r.isBraking
      /\ brakeEnergy' = r.brakeEnergy
      /\ brakeRechargeDelay' = r.brakeRechargeDelay
      /\ turnQueue' = r.turnQueue
      /\ rotation' = r.rotation
      /\ lastTurnFrame' = r.lastTurnFrame
      /\ position' = r.position
      /\ grindOffset' = r.grindOffset
      /\ lastHitFrame' = r.lastHitFrame
      /\ lastDamageType' = r.lastDamageType
      /\ outsideRingFrames' = r.outsideRingFrames
      /\ currentRingRadius' = r.currentRingRadius
      /\ newTrailSegments' = r.newTrailSegments
      /\ trail' = r.trail
      /\ trailFrames' = r.trailFrames
      /\ segmentsToRemove' = r.segmentsToRemove
      /\ graceFramesRemaining' = r.graceFramesRemaining
      /\ alive' = r.alive
      /\ health' = r.health
      /\ UNCHANGED grindDepthMap
      /\ returned' = [returned EXCEPT !.sharesPosition = FALSE]
      /\ requested' = requested
      /\ applied' = IF r.turned
                      THEN Append(applied, [ dir |-> Head(turnQueue), frame |-> r.frame,
                                             queued |-> Head(queuedAt).frame,
                                             k |-> Head(queuedAt).k ])
                      ELSE applied
      /\ queuedAt' = IF r.turned THEN Tail(queuedAt) ELSE queuedAt
      /\ last' = [ op |-> "update", alive0 |-> alive, health0 |-> health,
                   turned |-> r.turned, hit |-> r.hit, contact |-> r.contact,
                   headOn |-> r.headOn, outside |-> r.outside,
                   pre |-> r.pre, regenerated |-> r.health > r.pre,
                   braking0 |-> isBraking, energy0 |-> brakeEnergy,
                   delay0 |-> brakeRechargeDelay,
                   damage |-> IF r.outside THEN "zone"
                              ELSE IF r.headOn THEN "collision" ELSE last.damage,
                   tie |-> IF r.outside \/ r.headOn THEN r.outside /\ r.headOn
                                                     ELSE last.tie,
                   lived |-> last.lived + 1,
                   brakeRun |-> IF isBraking /\ r.isBraking THEN last.brakeRun + 1 ELSE 0,
                   graceStart |-> IF graceFramesRemaining <= 0 /\ r.graceFramesRemaining > 0
                                    THEN r.frame ELSE last.graceStart,
                   zoneRun |-> IF r.outside /\ ~r.headOn THEN last.zoneRun + 1 ELSE 0,
                   zoneRunHealth |-> IF r.outside /\ ~r.headOn
                                       THEN (IF last.zoneRun = 0 THEN health
                                                                 ELSE last.zoneRunHealth)
                                       ELSE 0,
                   sinceDeplete |-> IF r.brakeEnergy < brakeEnergy THEN 0
                                    ELSE IF last.sinceDeplete < 0 THEN -1
                                    ELSE Min(last.sinceDeplete + 1,
                                             config.brakeRechargeDelayFrames + 1),
                   retSegs |-> << >>, retCount |-> 0,
                   dueSegs |-> << >>, dueCount |-> 0,
                   pendSegs |-> last.pendSegs \o r.turnSegs \o r.growSegs,
                   pendCount |-> last.pendCount + (r.segmentsToRemove - segmentsToRemove),
                   segsLost |-> last.op # "getNewTrailSegments" /\ last.segsLost,
                   countLost |-> last.op # "getSegmentsToRemove" /\ last.countLost,
                   again |-> FALSE,
                   born |-> Born(last.born, r.turned, r.grew, r.frame, Len(trail),
                                 Len(r.trail)),
                   aged |-> r.aged, capped |-> r.capped,
                   grind0 |-> grindOffset, push |-> r.push ]

\* GameEngine.update
Update ==
  /\ frameCount < MaxFrames
  /\ UNCHANGED << config, calls, probe >>
  /\ IF alive THEN UpdateAlive ELSE UpdateDead

\* ------------------------------------------------------------ other methods
\* a call of a method other than update
Call ==
  /\ calls < MaxCalls
  /\ calls' = calls + 1
  /\ UNCHANGED probe

\* mutant: the direction is put at the front of the queue (unshift for push)
QueueTurnFront(direction) ==
  /\ Call
  /\ Len(turnQueue) < MaxQueue
  /\ turnQueue' = << direction >> \o turnQueue
  /\ requested' = Append(requested, direction)
  /\ queuedAt' = << [frame |-> frameCount, k |-> Len(turnQueue) + 1] >> \o queuedAt
  /\ last' = CallInfo("queueTurn")
  /\ UNCHANGED << config, position, rotation, trail, alive, lastTurnFrame, health,
                  grindOffset, graceFramesRemaining, brakeEnergy,
                  brakeRechargeDelay, isBraking, frameCount, lastHitFrame,
                  lastDamageType, outsideRingFrames, trailFrames,
                  newTrailSegments, segmentsToRemove, currentRingRadius,
                  grindDepthMap, applied, returned >>

\* GameEngine.queueTurn
QueueTurn(direction) ==
  /\ Call
  /\ Len(turnQueue) < MaxQueue
  /\ turnQueue' = Append(turnQueue, direction)
  /\ requested' = Append(requested, direction)
  /\ queuedAt' = Append(queuedAt, [frame |-> frameCount, k |-> Len(turnQueue) + 1])
  /\ last' = CallInfo("queueTurn")
  /\ UNCHANGED << config, position, rotation, trail, alive, lastTurnFrame, health,
                  grindOffset, graceFramesRemaining, brakeEnergy,
                  brakeRechargeDelay, isBraking, frameCount, lastHitFrame,
                  lastDamageType, outsideRingFrames, trailFrames,
                  newTrailSegments, segmentsToRemove, currentRingRadius,
                  grindDepthMap, applied, returned >>

\* GameEngine.setBraking
SetBraking(b) ==
  /\ Call
  /\ isBraking' = b
  /\ last' = CallInfo("setBraking")
  /\ UNCHANGED << config, position, rotation, trail, alive, lastTurnFrame, health,
                  grindOffset, graceFramesRemaining, brakeEnergy,
                  brakeRechargeDelay, turnQueue, frameCount, lastHitFrame,
                  lastDamageType, outsideRingFrames, trailFrames,
                  newTrailSegments, segmentsToRemove, currentRingRadius,
                  grindDepthMap, requested, applied, queuedAt, returned >>

\* GameEngine.reset, with BikePhysics.resetGrindDepthMap and Arena.reset
Reset ==
  /\ Call
  /\ position' = createInitialBikeState.position
  /\ rotation' = createInitialBikeState.rotation
  /\ trail' = createInitialBikeState.trail
  /\ alive' = createInitialBikeState.alive
  /\ lastTurnFrame' = createInitialBikeState.lastTurnFrame
  /\ health' = createInitialBikeState.health
  /\ grindOffset' = createInitialBikeState.grindOffset
  /\ graceFramesRemaining' = createInitialBikeState.graceFramesRemaining
  /\ brakeEnergy' = createInitialBikeState.brakeEnergy
  /\ brakeRechargeDelay' = createInitialBikeState.brakeRechargeDelay
  /\ isBraking' = createInitialBikeState.isBraking
  /\ grindDepthMap' = EmptyMap
  /\ currentRingRadius' = config.ringInitialRadius
  /\ turnQueue' = << >>
  /\ frameCount' = 0
  /\ lastHitFrame' = 0
  /\ lastDamageType' = "null"
  /\ outsideRingFrames' = 0
  /\ trailFrames' = << 0 >>
  /\ newTrailSegments' = << >>
  /\ segmentsToRemove' = 0
  /\ requested' = << >>
  /\ applied' = << >>
  /\ queuedAt' = << >>
  /\ last' = CallInfo("reset")
  /\ returned' = [returned EXCEPT !.sharesPosition = FALSE, !.sharesTrail = FALSE]
  /\ UNCHANGED config

\* mutant: the queue is returned but not cleared
GetNewTrailSegmentsKeep ==
  /\ Call
  /\ last' = [CallInfo("getNewTrailSegments") EXCEPT !.retSegs = newTrailSegments]
  /\ UNCHANGED << config, position, rotation, trail, alive, lastTurnFrame, health,
                  grindOffset, graceFramesRemaining, brakeEnergy,
                  brakeRechargeDelay, isBraking, turnQueue, frameCount,
                  lastHitFrame, lastDamageType, outsideRingFrames, trailFrames,
                  newTrailSegments, segmentsToRemove, currentRingRadius,
                  grindDepthMap, requested, applied, queuedAt, returned >>

\* GameEngine.getNewTrailSegments
GetNewTrailSegments ==
  /\ Call
  /\ newTrailSegments' = << >>
  /\ last' = [CallInfo("getNewTrailSegments") EXCEPT !.retSegs = newTrailSegments]
  /\ UNCHANGED << config, position, rotation, trail, alive, lastTurnFrame, health,
                  grindOffset, graceFramesRemaining, brakeEnergy,
                  brakeRechargeDelay, isBraking, turnQueue, frameCount,
                  lastHitFrame, lastDamageType, outsideRingFrames, trailFrames,
                  segmentsToRemove, currentRingRadius, grindDepthMap,
                  requested, applied, queuedAt, returned >>

\* GameEngine.getSegmentsToRemove
GetSegmentsToRemove ==
  /\ Call
  /\ segmentsToRemove' = 0
  /\ last' = [CallInfo("getSegmentsToRemove") EXCEPT !.retCount = segmentsToRemove]
  /\ UNCHANGED << config, position, rotation, trail, alive, lastTurnFrame, health,
                  grindOffset, graceFramesRemaining, brakeEnergy,
                  brakeRechargeDelay, isBraking, turnQueue, frameCount,
                  lastHitFrame, lastDamageType, outsideRingFrames, trailFrames,
                  newTrailSegments, currentRingRadius, grindDepthMap,
                  requested, applied, queuedAt, returned >>

Next ==
  \/ Update
  \/ \E d \in {"left", "right"} : QueueTurn(d)
  \/ \E b \in BOOLEAN : SetBraking(b)
  \/ Reset
  \/ GetNewTrailSegments
  \/ GetSegmentsToRemove

Spec == Init /\ [][Next]_vars

\* ------------------------------------------------------- the straight run
\* new GameEngine(DEFAULT_CONFIG) and nothing but update(): the bike runs from
\* the origin along +z into the wall, with no turn and no braking
StraightInit ==
  /\ config = DEFAULT_CONFIG
  /\ Constructed

StraightUpdate ==
  /\ frameCount < StraightFrames
  /\ UNCHANGED << config, calls, probe >>
  /\ IF alive THEN UpdateAlive ELSE UpdateDead

StraightNext == StraightUpdate

StraightSpec == StraightInit /\ [][StraightNext]_vars

\* ------------------------------------------------- the undrained engine
\* The engine with a caller that steers and resets but never calls the two
\* draining getters: newTrailSegments and segmentsToRemove then hold every
\* event since construction or the last reset()
SyncNext ==
  \/ Update
  \/ \E d \in {"left", "right"} : QueueTurn(d)
  \/ Reset

SyncSpec == Init /\ [][SyncNext]_vars

\* ------------------------------------------------------ the serpentine run
\* new GameEngine(DEFAULT_CONFIG), update() on every frame and a caller that
\* steers a serpentine course inside the safe zone: 300 frames along +z, a
\* U-turn (two turns to the same side, 20 frames apart), 600 frames along -z,
\* a U-turn to the other side, and so on, the lanes 1.3 apart.  The caller
\* chooses the side of the first U-turn.  turnAt(k) is the frame of the
\* update that is to apply the k-th turn; queueTurn is called right before it.
turnAt(k) ==
  300 + ((k - 1) \div 2) * (600 + DEFAULT_CONFIG.turnDelayFrames)
      + ((k - 1) % 2) * DEFAULT_CONFIG.turnDelayFrames

Other(d) == IF d = "left" THEN "right" ELSE "left"

\* the caller's queueTurn(direction), the next turn of the course
LapQueueTurn(direction) ==
  /\ alive
  /\ Len(turnQueue) = 0
  /\ frameCount + 1 = turnAt(Len(requested) + 1)
  /\ Len(requested) > 0 =>
        direction = IF ((Len(requested) \div 2) % 2) = 0 THEN requested[1]
                                                         ELSE Other(requested[1])
  /\ turnQueue' = Append(turnQueue, direction)
  /\ requested' = Append(requested, direction)
  /\ queuedAt' = Append(queuedAt, [frame |-> frameCount, k |-> Len(turnQueue) + 1])
  /\ last' = CallInfo("queueTurn")
  /\ UNCHANGED << config, position, rotation, trail, alive, lastTurnFrame, health,
                  grindOffset, graceFramesRemaining, brakeEnergy,
                  brakeRechargeDelay, isBraking, frameCount, lastHitFrame,
                  lastDamageType, outsideRingFrames, trailFrames,
                  newTrailSegments, segmentsToRemove, currentRingRadius,
                  grindDepthMap, applied, returned, calls, probe >>

\* update(), once the turn of this frame (if any) has been queued
LapUpdate ==
  /\ frameCount < LapFrames
  /\ ~(alive /\ Len(turnQueue) = 0 /\ frameCount + 1 = turnAt(Len(requested) + 1))
  /\ UNCHANGED << config, calls, probe >>
  /\ IF alive THEN UpdateAlive ELSE UpdateDead

LapNext ==
  \/ LapUpdate
  \/ \E d \in {"left", "right"} : LapQueueTurn(d)

LapSpec == StraightInit /\ [][LapNext]_vars

\* ------------------------------------------------------- the braking run
\* new GameEngine(SlowBrake), update() and setBraking(): the bike runs along
\* +z while the caller presses and releases the brake
BrakeInit ==
  /\ config = SlowBrake
  /\ Constructed

BrakeNext ==
  \/ Update
  \/ \E b \in BOOLEAN : SetBraking(b)

BrakeSpec == BrakeInit /\ [][BrakeNext]_vars

\* ------------------------------------------------------- the wall run
\* new GameEngine(NarrowArena), update(), queueTurn() and setBraking(): the
\* bike reaches the +z wall on its third update while the caller steers and
\* brakes
WallInit ==
  /\ config = NarrowArena
  /\ Constructed

WallUpdate ==
  /\ frameCount < WallFrames
  /\ UNCHANGED << config, calls, probe >>
  /\ IF alive THEN UpdateAlive ELSE UpdateDead

WallNext ==
  \/ WallUpdate
  \/ \E d \in {"left", "right"} : QueueTurn(d)
  \/ \E b \in BOOLEAN : SetBraking(b)

WallSpec == WallInit /\ [][WallNext]_vars

\* ------------------------------------------------------ the grace run
\* new GameEngine(LateRegen), update() on every frame: the bike loses its
\* health at the +z wall outside the zone, and once it has none the caller
\* steers and brakes
GraceInit ==
  /\ config = LateRegen
  /\ Constructed

GraceUpdate ==
  /\ frameCount < GraceRunFrames
  /\ UNCHANGED << config, calls, probe >>
  /\ IF alive THEN UpdateAlive ELSE UpdateDead

GraceNext ==
  \/ GraceUpdate
  \/ health <= 0 /\ \E d \in {"left", "right"} : QueueTurn(d)
  \/ health <= 0 /\ \E b \in BOOLEAN : SetBraking(b)

GraceSpec == GraceInit /\ [][GraceNext]_vars

\* ------------------------------------------- the object of getBikeState()
\* getBikeState() returns { ...this.bikeState }: a new object whose scalar
\* fields are copies and whose position and trail fields refer to the
\* engine's own Vector3 and array.  The engine replaces its position object on
\* every update of a living bike and its whole bikeState on reset(), and
\* pushes to and shifts its trail array in place; returned tells which of the
\* two the object handed out last still shares with the engine.
GetBikeState ==
  /\ Call
  /\ returned' = [ held |-> TRUE, sharesPosition |-> TRUE, sharesTrail |-> TRUE,
                   health |-> health ]
  /\ last' = CallInfo("getBikeState")
  /\ UNCHANGED << config, engineVars, requested, applied, queuedAt >>

\* the caller assigns to a scalar field of the object: state.health = 0
WriteReturnedHealth ==
  /\ Call
  /\ returned.held
  /\ returned' = [returned EXCEPT !.health = 0]
  /\ last' = CallInfo("writeHealth")
  /\ UNCHANGED << config, engineVars, requested, applied, queuedAt >>

\* the caller empties the trail list of the object: state.trail.length = 0
ClearReturnedTrail ==
  /\ Call
  /\ returned.held
  /\ trail' = IF returned.sharesTrail THEN << >> ELSE trail
  /\ last' = [CallInfo("writeTrail") EXCEPT
                !.born = IF returned.sharesTrail THEN << >> ELSE @]
  /\ UNCHANGED << config, position, rotation, alive, lastTurnFrame, health,
                  grindOffset, graceFramesRemaining, brakeEnergy,
                  brakeRechargeDelay, isBraking, turnQueue, frameCount,
                  lastHitFrame, lastDamageType, outsideRingFrames, trailFrames,
                  newTrailSegments, segmentsToRemove, currentRingRadius,
                  grindDepthMap, requested, applied, queuedAt, returned >>

\* the caller moves the position vector of the object: state.position.set(x, 0, z)
SetReturnedPosition(v) ==
  /\ Call
  /\ returned.held
  /\ position' = IF returned.sharesPosition THEN v ELSE position
  /\ last' = CallInfo("writePosition")
  /\ UNCHANGED << config, rotation, trail, alive, lastTurnFrame, health,
                  grindOffset, graceFramesRemaining, brakeEnergy,
                  brakeRechargeDelay, isBraking, turnQueue, frameCount,
                  lastHitFrame, lastDamageType, outsideRingFrames, trailFrames,
                  newTrailSegments, segmentsToRemove, currentRingRadius,
                  grindDepthMap, requested, applied, queuedAt, returned >>

AliasNext ==
  \/ Update
  \/ Reset
  \/ GetBikeState
  \/ WriteReturnedHealth
  \/ ClearReturnedTrail
  \/ \E v \in {Vec(0, 0), Vec(0, 2 * config.boundaryLimit)} : SetReturnedPosition(v)

AliasSpec == Init /\ [][AliasNext]_vars

\* ------------------------------------------- checkCollisions called directly
\* The arguments of a direct call.  A trail is a polyline that starts next to
\* the -z wall and runs along +z in steps of 6 grid units (Line), with its last
\* two waypoints after a turn towards +x when it has a hook (Hook); as in
\* update(), the candidate position is appended to it as the phantom last
\* point.  The candidates lie on a grid that covers the inside of the small
\* arenas, the strip beyond each wall and the corners.
Line(n) == [k \in 1..n |-> Vec(0, 6 * (k - 1) - 44)]
Hook(n) ==
  [k \in 1..n |-> IF k <= n - 2 THEN Vec(0, 6 * (k - 1) - 44)
                               ELSE Vec(6 * (k - (n - 2)), 6 * (n - 3) - 44)]
Shapes ==
  {Line(n) : n \in {3, 10, 11, MaxShape}} \cup {Hook(n) : n \in {5, MaxShape}}
Coordinates == {-60, -50, -36, -20, -10, 0, 10, 20, 36, 50, 60}
Candidates == {Vec(x, z) : x \in Coordinates, z \in Coordinates}
Grinds == {0, 5 * headOnGrind}

\* physics.checkCollisions(position, [...trail, position], bikeState), once
CheckCollisionsCall(pos, shape, grind) ==
  /\ probe = NoProbe
  /\ probe' = [ position |-> pos, trail |-> Append(shape, pos),
                grindOffset |-> grind,
                result |-> checkCollisions(pos, Append(shape, pos), grind) ]
  /\ UNCHANGED << config, engineVars, requested, applied, queuedAt, last, calls,
                  returned >>

PhysNext ==
  \E pos \in Candidates, shape \in Shapes, grind \in Grinds :
    CheckCollisionsCall(pos, shape, grind)

PhysSpec == Init /\ [][PhysNext]_vars

\* ===================================================================== claims

\* C1: in every reachable state the trail waypoint list and the parallel
\* trailFrames age list have the same length.
TrailAgeSameLength == Len(trail) = Len(trailFrames)

\* the state of a freshly constructed engine, field for field
FreshlyConstructed ==
  /\ position = createInitialBikeState.position
  /\ rotation = createInitialBikeState.rotation
  /\ trail = createInitialBikeState.trail
  /\ alive = createInitialBikeState.alive
  /\ lastTurnFrame = createInitialBikeState.lastTurnFrame
  /\ health = createInitialBikeState.health
  /\ grindOffset = createInitialBikeState.grindOffset
  /\ graceFramesRemaining = createInitialBikeState.graceFramesRemaining
  /\ brakeEnergy = createInitialBikeState.brakeEnergy
  /\ brakeRechargeDelay = createInitialBikeState.brakeRechargeDelay
  /\ isBraking = createInitialBikeState.isBraking
  /\ turnQueue = << >>
  /\ frameCount = 0
  /\ lastHitFrame = 0
  /\ lastDamageType = "null"
  /\ outsideRingFrames = 0
  /\ trailFrames = << >>
  /\ newTrailSegments = << >>
  /\ segmentsToRemove = 0
  /\ currentRingRadius = config.ringInitialRadius
  /\ grindDepthMap = EmptyMap

\* C2: the state right after reset() equals, field for field, the state of a
\* freshly constructed engine.
ResetEqualsConstructed == last.op = "reset" => FreshlyConstructed

\* C3: after every update(), abs(position.x) <= boundaryLimit and
\* abs(position.z) <= boundaryLimit, also on frames where a collision is
\* reported and the grind offset is applied to the clamped position.
BoundaryContainment ==
  last.op = "update" =>
    /\ Abs(position.x) <= config.boundaryLimit
    /\ Abs(position.z) <= config.boundaryLimit

\* C4: in every reachable state -10 <= health <= maxHealth.
HealthBounds == healthFloor <= health /\ health <= maxHealth

\* C4 witness: an update has regenerated a damaged bike up to the cap.
HealthBoundsWitness ==
  /\ last.op = "update"
  /\ last.health0 < maxHealth
  /\ health > last.health0
  /\ health = maxHealth

\* C5: any two turns applied by update() are applied at frames that differ by
\* at least turnDelayFrames; hence one update() applies at most one turn,
\* however many turns are queued.
TurnGating ==
  \A i \in 1..Len(applied) : \A j \in 1..Len(applied) :
    i < j => applied[j].frame - applied[i].frame >= config.turnDelayFrames

\* C5 witness: two turns have been applied, the second by an update that
\* found two turns queued.
TurnGatingWitness ==
  /\ Len(applied) = 2
  /\ last.op = "update" /\ last.turned
  /\ Len(turnQueue) = 1

\* the directions of the turns applied so far
RECURSIVE Dirs(_)
Dirs(seq) == IF seq = << >> THEN << >> ELSE << Head(seq).dir >> \o Dirs(Tail(seq))

\* C6: the turns applied by update() followed by the turns still queued are
\* exactly the directions passed to queueTurn() since construction or the
\* last reset(), in request order: nothing is reordered, duplicated or
\* dropped.
TurnFifo == requested = Dirs(applied) \o turnQueue

\* C6 witness: a left and a right turn were requested, one has been applied
\* and the other is still queued.
TurnFifoWitness ==
  /\ Len(applied) >= 1
  /\ Len(turnQueue) >= 1
  /\ applied[1].dir # turnQueue[1]

\* C7: while the bike is alive a queued turn does not wait: after an update()
\* of a living bike that leaves a turn queued, fewer than turnDelayFrames
\* frames have passed since the last turn, and the turn queued at queue
\* position k is applied within k * turnDelayFrames updates of being queued.
TurnServed ==
  /\ (last.op = "update" /\ last.alive0 /\ Len(turnQueue) > 0)
        => frameCount - lastTurnFrame < config.turnDelayFrames
  /\ alive => \A i \in 1..Len(queuedAt) :
                frameCount - queuedAt[i].frame < queuedAt[i].k * config.turnDelayFrames
  /\ \A i \in 1..Len(applied) :
        applied[i].frame - applied[i].queued <= applied[i].k * config.turnDelayFrames

\* C7 witness: a turn queued behind another one has been applied exactly
\* 2 * turnDelayFrames updates after it was queued.
TurnServedWitness ==
  \E i \in 1..Len(applied) :
    /\ applied[i].k = 2
    /\ applied[i].frame - applied[i].queued = 2 * config.turnDelayFrames

\* C8: update() on a bike that is not alive changes nothing but the frame
\* counter.
DeadUpdateNoOp ==
  [][(~alive /\ last'.op = "update") =>
        /\ frameCount' = frameCount + 1
        /\ UNCHANGED << position, rotation, trail, alive, lastTurnFrame, health,
                        grindOffset, graceFramesRemaining, brakeEnergy,
                        brakeRechargeDelay, isBraking, turnQueue, lastHitFrame,
                        lastDamageType, outsideRingFrames, trailFrames,
                        newTrailSegments, segmentsToRemove, currentRingRadius,
                        grindDepthMap >>]_vars

\* C8 witness: update() has been called on a dead bike whose brake was
\* requested, with a turn queued.
DeadUpdateWitness ==
  /\ last.op = "update" /\ ~last.alive0
  /\ isBraking
  /\ Len(turnQueue) > 0

\* C9: once alive is false it stays false, whatever is called, except reset().
DeathIsTerminal == [][~alive => (~alive' \/ last'.op = "reset")]_vars

\* C9 witness: queueTurn() has been called on a dead bike after an update()
\* on the dead bike.
DeathIsTerminalWitness ==
  /\ ~alive /\ ~last.alive0
  /\ last.op = "queueTurn"
  /\ frameCount >= 6

\* C10: alive becomes false only in an update() that ends with health <= 0
\* and graceFramesRemaining <= 0, and the update() that takes health from
\* above 0 to 0 starts the countdown at graceFrames and leaves the bike alive.
DeathOnlyAfterGrace ==
  /\ (last.alive0 /\ ~alive) =>
        (last.op = "update" /\ health <= 0 /\ graceFramesRemaining <= 0)
  /\ (last.op = "update" /\ last.health0 > 0 /\ health <= 0) =>
        (alive /\ graceFramesRemaining = config.graceFrames)

\* C10 witness: the update() that has just been called killed the bike.
DeathOnlyAfterGraceWitness ==
  last.op = "update" /\ last.alive0 /\ ~alive

\* C11: at the end of every update() on which health is above 0,
\* graceFramesRemaining is 0.
GraceResetAboveZero ==
  (last.op = "update" /\ health > 0) => graceFramesRemaining = 0

\* C11 witness: an update() of a bike in its grace countdown has regenerated
\* health from 0 to above 0.
GraceResetWitness ==
  /\ last.op = "update" /\ last.alive0
  /\ last.health0 <= 0 /\ last.graceStart >= 0
  /\ health > 0

\* C12: an update() of a living bike that finds the grace countdown started
\* and ends with health <= 0 decreases graceFramesRemaining by 1, or by 3 if
\* the update had a head-on hit or zone damage; and the update() that makes
\* the bike not alive comes no earlier than ceil(graceFrames / 3) and no later
\* than graceFrames updates after the update that started the countdown.
GraceCountdown ==
  [][(alive /\ last'.op = "update") =>
        /\ (graceFramesRemaining > 0 /\ health' <= 0) =>
              graceFramesRemaining' =
                graceFramesRemaining - (IF last'.headOn \/ last'.outside THEN 3 ELSE 1)
        /\ ~alive' =>
              /\ last'.graceStart >= 0
              /\ frameCount' - last'.graceStart >= CeilDiv(config.graceFrames, 3)
              /\ frameCount' - last'.graceStart <= config.graceFrames]_vars

\* C12 witness: the bike has just died graceFrames updates after the start of
\* the countdown, the last of them an undamaged one (the countdown went by 1
\* on every update).
GraceCountdownWitness ==
  /\ last.op = "update" /\ last.alive0 /\ ~alive
  /\ ~last.headOn /\ ~last.outside
  /\ frameCount - last.graceStart = config.graceFrames

\* C12: the bike has just died ceil(graceFrames / 3) updates after the start
\* of the countdown (every update of the countdown was a damaged one).
GraceCountdownFastest ==
  /\ last.op = "update" /\ last.alive0 /\ ~alive
  /\ frameCount - last.graceStart = CeilDiv(config.graceFrames, 3)

\* C13: on an update() of a living bike in which a head-on collision or zone
\* damage occurred no regeneration is applied, and health at the end of the
\* update is not greater than health at its start.
NoRegenWhenDamaged ==
  (last.op = "update" /\ last.alive0 /\ (last.headOn \/ last.outside)) =>
    /\ ~last.regenerated
    /\ health = Max(healthFloor, last.pre)
    /\ health <= last.health0

\* C13 witness: an update() had zone damage and no head-on hit, with the
\* regeneration delay elapsed and health below maxHealth.
NoRegenWhenDamagedWitness ==
  /\ last.op = "update" /\ last.alive0
  /\ last.outside /\ ~last.headOn
  /\ frameCount - lastHitFrame > config.regenDelayFrames
  /\ health > 0 /\ health < last.health0

\* C14: health increases only by reset() or by an update() of a living bike
\* with frameCount - lastHitFrame > regenDelayFrames, where lastHitFrame is
\* the frame of the most recent head-on hit: only an update() with a head-on
\* hit sets it (to the frame of that update), so health never increases
\* during the regenDelayFrames updates that follow a head-on hit, and zone
\* damage does not restart the delay.
RegenOnlyAfterDelay ==
  [][/\ (health' > health \/ last'.regenerated) =>
          \/ last'.op = "reset"
          \/ /\ alive /\ last'.op = "update"
             /\ frameCount' - lastHitFrame' > config.regenDelayFrames
     /\ lastHitFrame' # lastHitFrame =>
          \/ last'.op = "reset"
          \/ alive /\ last'.op = "update" /\ last'.headOn
     /\ (alive /\ last'.op = "update" /\ last'.headOn) =>
          lastHitFrame' = frameCount']_vars

\* C14 witness: an update() has regenerated health exactly
\* regenDelayFrames + 1 updates after a head-on hit, with zone damage taken
\* in or after the update of the hit.
RegenOnlyAfterDelayWitness ==
  /\ last.op = "update" /\ last.regenerated
  /\ lastHitFrame > 0
  /\ frameCount - lastHitFrame = config.regenDelayFrames + 1
  /\ last.damage = "zone"

\* C15: an update() that applies regeneration raises health by slowRegenRate
\* if the most recent damage event was zone damage and by fastRegenRate
\* otherwise, capped at maxHealth; an update() with both a head-on hit and
\* zone damage subtracts both amounts (each floored at 0) and leaves zone as
\* the most recent damage type, which is the type the regeneration reads.
RegenRateByDamageType ==
  /\ lastDamageType = (IF last.damage = "none" THEN "null" ELSE last.damage)
  /\ (last.op = "update" /\ last.regenerated) =>
        /\ last.pre = last.health0
        /\ health = Min(maxHealth,
                        last.pre + (IF last.damage = "zone" THEN config.slowRegenRate
                                                            ELSE config.fastRegenRate))
  /\ (last.op = "update" /\ last.alive0 /\ last.headOn /\ last.outside) =>
        /\ health = Max(0, Max(0, last.health0 - collisionDamage) - ringDepletionPerFrame)
        /\ lastDamageType = "zone"

\* C15 witness: an update() has regenerated health at the slow rate, below
\* the cap, and the most recent damage was a head-on hit and zone damage in
\* one update.
RegenRateWitness ==
  /\ last.op = "update" /\ last.regenerated
  /\ last.tie
  /\ health = last.health0 + config.slowRegenRate
  /\ health < maxHealth

\* C15: an update() has regenerated health at the fast rate after a head-on
\* hit.
RegenRateFastWitness ==
  /\ last.op = "update" /\ last.regenerated
  /\ last.damage = "collision"
  /\ health = last.health0 + config.fastRegenRate

ZoneDamageExact ==
  LET amount == (100 * HealthScale) \div config.ringDepletionFrames
  IN  /\ amount * config.ringDepletionFrames = 100 * HealthScale
      /\ (last.op = "update" /\ last.alive0 /\ last.outside /\ ~last.headOn) =>
            /\ health = Max(0, last.health0 - amount)
            /\ last.zoneRun >= 1
      /\ last.zoneRun >= 1 =>
            health = Max(0, last.zoneRunHealth - last.zoneRun * amount)

\* C17 witness: the third of three zone-damage-only updates in a row has
\* left health above 0.
ZoneDamageWitness ==
  /\ last.op = "update" /\ last.alive0 /\ last.outside /\ ~last.headOn
  /\ last.zoneRun = 3
  /\ health > 0

\* C17: a zone-damage-only update has taken the rest of a health that was
\* below the amount: the floor at 0 has acted.
ZoneDamageFloorWitness ==
  /\ last.op = "update" /\ last.alive0 /\ last.outside /\ ~last.headOn
  /\ last.zoneRun >= 2
  /\ last.health0 > 0
  /\ last.health0 < (100 * HealthScale) \div config.ringDepletionFrames
  /\ health = 0

\* C18: in every reachable state 0 <= brakeEnergy <= brakeMaxEnergy and
\* 0 <= brakeRechargeDelay <= brakeRechargeDelayFrames, whatever the order of
\* the setBraking() and update() calls.
BrakeBounds ==
  /\ 0 <= brakeEnergy /\ brakeEnergy <= config.brakeMaxEnergy
  /\ 0 <= brakeRechargeDelay
  /\ brakeRechargeDelay <= config.brakeRechargeDelayFrames

\* C18 witness: an update() with the brake requested found less energy than
\* one depletion step and has left energy 0 and the recharge delay at its
\* maximum.
BrakeBoundsWitness ==
  /\ last.op = "update" /\ last.alive0 /\ last.braking0
  /\ last.energy0 > 0 /\ last.energy0 < config.brakeDepletionRate
  /\ brakeEnergy = 0
  /\ brakeRechargeDelay = config.brakeRechargeDelayFrames

\* C19: at the end of every update() of a living bike, brakeEnergy = 0
\* implies that isBraking is false, whatever setBraking() calls came before.
BrakeOffWhenEmpty ==
  (last.op = "update" /\ last.alive0 /\ brakeEnergy = 0) => ~isBraking

\* C20: while the brake request stays in effect on a living bike every
\* update() lowers brakeEnergy (by brakeDepletionRate, floored at 0), so it
\* stays in effect through at most ceil(brakeMaxEnergy / brakeDepletionRate)
\* updates in a row, and the update() that finds it in effect with energy 0
\* sets isBraking false with no setBraking(false) call; an update() that finds
\* no brake request counts the recharge delay down while it is positive and
\* never lowers brakeEnergy, and once the delay is 0 raises brakeEnergy by
\* brakeRechargeRate, strictly, until it equals brakeMaxEnergy.
BrakeDepleteRecharge ==
  /\ last.brakeRun <= CeilDiv(config.brakeMaxEnergy, config.brakeDepletionRate)
  /\ (last.op = "update" /\ last.alive0 /\ last.braking0) =>
        /\ last.energy0 > 0 =>
              /\ brakeEnergy = Max(0, last.energy0 - config.brakeDepletionRate)
              /\ brakeEnergy < last.energy0
        /\ last.energy0 = 0 => ~isBraking
  /\ (last.op = "update" /\ last.alive0 /\ ~last.braking0) =>
        /\ ~isBraking
        /\ brakeEnergy >= last.energy0
        /\ last.delay0 > 0 =>
              brakeRechargeDelay = last.delay0 - 1 /\ brakeEnergy = last.energy0
        /\ last.delay0 = 0 =>
              /\ brakeEnergy = Min(config.brakeMaxEnergy,
                                   last.energy0 + config.brakeRechargeRate)
              /\ last.energy0 < config.brakeMaxEnergy => brakeEnergy > last.energy0

\* C20 witness: after a single setBraking(true) and no other call, the
\* energy was used up, isBraking was set false by update(), the recharge
\* delay has elapsed and this update() has completed the recharge.
BrakeDepleteRechargeWitness ==
  /\ last.op = "update" /\ last.alive0 /\ ~last.braking0
  /\ calls = 1
  /\ last.delay0 = 0
  /\ last.energy0 < config.brakeMaxEnergy
  /\ brakeEnergy = config.brakeMaxEnergy
  /\ frameCount >= CeilDiv(config.brakeMaxEnergy, config.brakeDepletionRate)
                     + 1 + config.brakeRechargeDelayFrames
                     + CeilDiv(config.brakeMaxEnergy, config.brakeRechargeRate) - 1

\* C21: brake energy does not increase on any of the brakeRechargeDelayFrames
\* updates that follow the last depleting update: every depleting update sets
\* brakeRechargeDelay to brakeRechargeDelayFrames, and energy is recharged only
\* on an update that starts with brakeRechargeDelay = 0.
RechargeWaitsForDelay ==
  (last.op = "update" /\ last.alive0) =>
    /\ (brakeEnergy < last.energy0 =>
          brakeRechargeDelay = config.brakeRechargeDelayFrames)
    /\ (brakeEnergy > last.energy0 => last.delay0 = 0)
    /\ (last.sinceDeplete \in 1..config.brakeRechargeDelayFrames =>
          brakeEnergy <= last.energy0)

\* the last update of the delay has passed without recharge
RechargeWaitsWitness ==
  /\ last.op = "update" /\ last.alive0
  /\ last.sinceDeplete = config.brakeRechargeDelayFrames
  /\ ~isBraking
  /\ brakeEnergy = last.energy0
  /\ brakeEnergy < config.brakeMaxEnergy

\* the first update after the delay recharges
RechargeAfterDelayWitness ==
  /\ last.op = "update" /\ last.alive0
  /\ last.sinceDeplete = config.brakeRechargeDelayFrames + 1
  /\ brakeEnergy > last.energy0

\* C22, as stated: getNewTrailSegments() returns exactly the segments emitted
\* since its previous call and getSegmentsToRemove() exactly the removals
\* counted since its previous call, so that no event is lost or delivered
\* twice; each clears its queue.
DrainDeliversAll ==
  /\ (last.op = "getNewTrailSegments" =>
        last.retSegs = last.dueSegs /\ ~last.segsLost /\ newTrailSegments = << >>)
  /\ (last.op = "getSegmentsToRemove" =>
        last.retCount = last.dueCount /\ ~last.countLost /\ segmentsToRemove = 0)

\* C22, amended: each getter returns exactly the events produced since its
\* previous call or the last reset(), whichever is later, and clears its
\* queue; an immediate second call returns the empty list and 0.
DrainSinceCallOrReset ==
  /\ (last.op = "getNewTrailSegments" =>
        last.retSegs = last.dueSegs /\ newTrailSegments = << >>)
  /\ (last.op = "getSegmentsToRemove" =>
        last.retCount = last.dueCount /\ segmentsToRemove = 0)
  /\ (last.again => last.retSegs = << >> /\ last.retCount = 0)

\* a call of each getter has delivered events
DrainWitness ==
  /\ last.op = "getSegmentsToRemove"
  /\ last.retCount > 0
  /\ newTrailSegments = << >>
  /\ Len(trail) > 1
  /\ calls >= 2

\* an immediate second call of getNewTrailSegments after one that delivered
DrainTwiceWitness ==
  /\ last.op = "getNewTrailSegments"
  /\ last.again
  /\ frameCount > 0
  /\ Len(trail) > 1

\* C24: after every update() of a living bike no waypoint remains in the
\* trail whose age, the current frame minus the frame at which that waypoint
\* was appended, exceeds trailMaxFrames; this includes the initial waypoint
\* created at construction.
NoWaypointTooOld ==
  (last.op = "update" /\ last.alive0) =>
    /\ Len(last.born) = Len(trail)
    /\ \A i \in 1..Len(last.born) :
          frameCount - last.born[i] <= config.trailMaxFrames

\* the same, for the runs that start with reset(): there the age list of the
\* code is aligned with the trail and the bound holds
NoWaypointTooOldAfterReset ==
  (last.op = "update" /\ last.alive0 /\ Len(trailFrames) = Len(trail)) =>
    \A i \in 1..Len(last.born) :
      /\ last.born[i] = trailFrames[i]
      /\ frameCount - last.born[i] <= config.trailMaxFrames

\* C25: after every update() the trail holds at most
\* ceil(trailMaxFrames / 60) * 4 waypoints, also when the age-based eviction
\* removes nothing.
TrailLengthCapped ==
  last.op = "update" =>
    Len(trail) <= 4 * ((config.trailMaxFrames + 59) \div 60)

\* an update on which the age loop removed nothing and the count loop cut the
\* trail down to the cap
TrailLengthCappedWitness ==
  /\ last.op = "update" /\ last.alive0
  /\ ~last.aged
  /\ last.capped
  /\ Len(trail) = 4 * ((config.trailMaxFrames + 59) \div 60)

\* C30: grindOffset increases on an update() only when a contact is reported
\* and the bike pushes into or slides along the contacted surface
\* (direction . normal <= 0), never when its heading points away from it.
GrindOnlyWhenPushing ==
  (last.op = "update" /\ last.alive0 /\ grindOffset > last.grind0) =>
    (last.contact /\ last.push <= 0)

\* C26: from the initial state (origin, heading +z, speed 0.065 per frame),
\* with no turn and no braking, the first update() whose candidate z exceeds
\* boundaryLimit - 0.15 = 44.825 reports a head-on hit with normal (0, 0, -1)
\* and leaves position.z <= 44.825.
FirstWallHitStops ==
  [][ ( /\ alive
        /\ last'.op = "update"
        /\ position.z <= config.boundaryLimit - bikeHalfWidth
        /\ updateAlive.candidate.z > config.boundaryLimit - bikeHalfWidth )
      => ( /\ last'.hit /\ last'.headOn
           /\ updateAlive.collision.normal
                = [x |-> 0, z |-> -1, n100 |-> 100, scale |-> PosScale]
           /\ position'.z <= config.boundaryLimit - bikeHalfWidth ) ]_vars

\* C29: in every reachable state 0 <= grindOffset <= 0.3, and at the end of
\* an update() of a living bike on which no contact with a normal was
\* reported grindOffset is 0.
GrindOffsetRange ==
  /\ 0 <= grindOffset
  /\ 10 * grindOffset <= 3 * PosScale
  /\ (last.op = "update" /\ last.alive0 /\ ~last.contact) => grindOffset = 0

\* a contact on an update that starts with grindOffset at 0.3
GrindOffsetCapWitness ==
  /\ last.op = "update" /\ last.alive0
  /\ last.contact
  /\ 10 * last.grind0 = 3 * PosScale
  /\ 10 * grindOffset = 3 * PosScale

\* squared distance from p to the axis-parallel segment a-b
AxisDist2(p, a, b) ==
  LET dx == IF p.x < Min(a.x, b.x) THEN Min(a.x, b.x) - p.x
            ELSE IF p.x > Max(a.x, b.x) THEN p.x - Max(a.x, b.x) ELSE 0
      dz == IF p.z < Min(a.z, b.z) THEN Min(a.z, b.z) - p.z
            ELSE IF p.z > Max(a.z, b.z) THEN p.z - Max(a.z, b.z) ELSE 0
  IN  dx * dx + dz * dz

\* segment i of the probed trail, the last point of which is the candidate,
\* passes the candidate closer than the collision distance
ProbeNear(i) ==
  AxisDist2(probe.position, probe.trail[i], probe.trail[i + 1])
    < collisionDist * collisionDist

\* the candidate of the probe lies beyond a wall
ProbeBeyondWall ==
  \/ Abs(probe.position.x) > config.boundaryLimit - bikeHalfWidth
  \/ Abs(probe.position.z) > config.boundaryLimit - bikeHalfWidth

\* C27: the 10 most recent segments of the trail handed to checkCollisions,
\* the phantom segment that ends at the candidate included, are never tested:
\* no trail collision is reported while the trail holds 10 or fewer waypoints,
\* and a reported trail collision is one with a segment older than the last
\* 10 (so not with the segment a turn has just created).
RecentSegmentsNotTested ==
  probe # NoProbe =>
    /\ (Len(probe.trail) - 1 <= 10 => (probe.result.hit <=> ProbeBeyondWall))
    /\ ((probe.result.hit /\ ~ProbeBeyondWall) =>
          \E i \in 1..(Len(probe.trail) - 11) : ProbeNear(i))
    /\ (probe.result.normal.scale \notin {0, PosScale} =>
          \E i \in 1..(Len(probe.trail) - 11) : ProbeNear(i))

\* a trail of more than 10 waypoints whose last (hooked) segments pass the
\* candidate within the collision distance, all older ones do not, and no
\* hit is reported
RecentSegmentsWitness ==
  /\ probe # NoProbe
  /\ Len(probe.trail) - 1 > 10
  /\ ~ProbeBeyondWall
  /\ probe.trail[Len(probe.trail) - 1].x # 0
  /\ \E i \in (Len(probe.trail) - 10)..(Len(probe.trail) - 2) : ProbeNear(i)
  /\ \A i \in 1..(Len(probe.trail) - 11) : ~ProbeNear(i)
  /\ ~probe.result.hit

\* a trail collision with an older segment is reported
OldSegmentHitWitness ==
  /\ probe # NoProbe
  /\ ~ProbeBeyondWall
  /\ probe.result.hit
  /\ probe.result.normal.scale = collisionDist + safeExtra

\* the contacts of the probed candidate, each with its own correction and
\* normal: one for each wall the candidate lies beyond, and one for each tested
\* segment that passes it within the collision distance at a distance above 0
\* (no trail contact counts while the grind depth lets the bike pass)
ProbeWallContacts ==
  LET pos == probe.position
      limit == config.boundaryLimit - bikeHalfWidth
  IN  (IF Abs(pos.x) > limit
         THEN {[ corr |-> Vec(Sign(pos.x) * limit, pos.z),
                 normal |-> [x |-> -Sign(pos.x), z |-> 0, n100 |-> 100,
                             scale |-> PosScale] ]}
         ELSE {})
      \cup
      (IF Abs(pos.z) > limit
         THEN {[ corr |-> Vec(pos.x, Sign(pos.z) * limit),
                 normal |-> [x |-> 0, z |-> -Sign(pos.z), n100 |-> 100,
                             scale |-> PosScale] ]}
         ELSE {})

ProbeTrailContacts ==
  LET pos == probe.position
      tr == probe.trail
      pass == ProbeBeyondWall /\ probe.grindOffset > passMargin
      tested == {i \in 1..(Len(tr) - segmentsToSkip - 1) :
                   /\ Dist2(tr[i], tr[i + 1]) >= minSegLength * minSegLength
                   /\ ProbeNear(i)
                   /\ ClosestPoint(pos, tr[i], tr[i + 1]) # pos
                   /\ ~pass}
  IN  {LET closest == ClosestPoint(pos, tr[i], tr[i + 1])
           pushDir == Sub(pos, closest)
           n100 == Len100(pushDir)
       IN  [ corr |-> Vec(closest.x + RoundDiv(pushDir.x * (collisionDist + safeExtra) * 100, n100),
                          closest.z + RoundDiv(pushDir.z * (collisionDist + safeExtra) * 100, n100)),
             normal |-> [x |-> pushDir.x, z |-> pushDir.z, n100 |-> n100,
                         scale |-> collisionDist + safeExtra] ] : i \in tested}

\* the result of the probe is the correction of one contact, the farthest
\* from the candidate, with the normal of that contact (no contact: no
\* correction and no normal)
FarthestOf(contacts) ==
  IF contacts = {}
    THEN probe.result.corrected = probe.position /\ probe.result.normal = NullNormal
    ELSE \E c \in contacts :
           /\ probe.result.corrected = c.corr
           /\ probe.result.normal = c.normal
           /\ \A d \in contacts :
                 Dist2(d.corr, probe.position) <= Dist2(c.corr, probe.position)

\* C28: for every candidate checkCollisions returns the correction that lies
\* farthest from the candidate among all boundary and trail contacts found,
\* with the normal of that same contact, also when two walls are exceeded and
\* when a trail contact is found whose correction is not selected.
FarthestContactWins ==
  probe # NoProbe => FarthestOf(ProbeWallContacts \cup ProbeTrailContacts)

\* the same for the candidates that lie beyond at most one wall
FarthestContactOneWall ==
  (probe # NoProbe /\ Cardinality(ProbeWallContacts) <= 1) =>
    FarthestOf(ProbeWallContacts \cup ProbeTrailContacts)

\* a wall contact and a trail contact, each of them selected in some probe
TrailContactNotSelected ==
  /\ probe # NoProbe
  /\ Cardinality(ProbeWallContacts) = 1
  /\ ProbeTrailContacts # {}
  /\ probe.result.normal.scale = PosScale
TrailContactSelected ==
  /\ probe # NoProbe
  /\ Cardinality(ProbeWallContacts) = 1
  /\ ProbeTrailContacts # {}
  /\ probe.result.normal.scale = collisionDist + safeExtra

\* C23: the value returned by getBikeState() is independent of the engine:
\* mutating the returned object, its trail list and its position vector
\* included, never changes the engine's own bike state (and so not the
\* outcome of later update() calls).
ReturnedStateIndependent ==
  [][ last'.op \in {"writeHealth", "writeTrail", "writePosition"}
      => UNCHANGED engineVars ]_vars

\* what does hold: the engine is left as it is by a write to a scalar field of
\* the returned object, by a write to its position once a living bike has been
\* updated, and by any write to it after reset()
ReturnedScalarsIndependent ==
  [][ ( \/ last'.op = "writeHealth"
        \/ last'.op = "writePosition" /\ ~returned.sharesPosition
        \/ last'.op = "writeTrail" /\ ~returned.sharesTrail )
      => UNCHANGED engineVars ]_vars

\* C31: on an update() with a head-on contact health decreases by the
\* collision damage 1.2 (floored at 0), grindOffset grows by 0.02,
\* lastDamageType becomes collision and lastHitFrame becomes the current
\* frame; on an update() with a contact that is not head-on grindOffset grows
\* by 0.01, no collision damage is applied and lastHitFrame is unchanged.
CollisionEffects ==
  [][ (alive /\ last'.op = "update") =>
        /\ last'.headOn =>
              /\ health' = Max(0, health - collisionDamage)
              /\ grindOffset' = grindOffset + headOnGrind
              /\ lastDamageType' = "collision"
              /\ lastHitFrame' = frameCount'
        /\ (last'.contact /\ ~last'.headOn) =>
              /\ grindOffset' = grindOffset + parallelGrind
              /\ last'.pre = IF last'.outside
                               THEN Max(0, health - ringDepletionPerFrame)
                               ELSE health
              /\ lastHitFrame' = lastHitFrame ]_vars

\* C31 as amended: the growth of grindOffset stops at the cap 0.3, and zone
\* damage of the same update comes on top of the collision damage and leaves
\* lastDamageType at zone.
CollisionEffectsCapped ==
  [][ (alive /\ last'.op = "update") =>
        /\ last'.headOn =>
              /\ last'.contact
              /\ health' = IF last'.outside
                             THEN Max(0, Max(0, health - collisionDamage)
                                           - ringDepletionPerFrame)
                             ELSE Max(0, health - collisionDamage)
              /\ grindOffset' = Min(grindOffset + headOnGrind, maxGrind)
              /\ lastDamageType' = IF last'.outside THEN "zone" ELSE "collision"
              /\ lastHitFrame' = frameCount'
        /\ (last'.contact /\ ~last'.headOn) =>
              /\ grindOffset' = Min(grindOffset + parallelGrind, maxGrind)
              /\ last'.pre = IF last'.outside
                               THEN Max(0, health - ringDepletionPerFrame)
                               ELSE health
              /\ lastHitFrame' = lastHitFrame ]_vars

\* an update with a contact that is not head-on, on a bike that an earlier
\* head-on hit has damaged and pressed into the surface
GlancingContactWitness ==
  /\ last.op = "update" /\ last.alive0
  /\ last.contact /\ ~last.headOn
  /\ last.grind0 > 0
  /\ grindOffset = last.grind0 + parallelGrind
  /\ lastHitFrame > 0 /\ lastHitFrame < frameCount

\* an update with a head-on contact and no zone damage
HeadOnContactWitness ==
  /\ last.op = "update" /\ last.alive0
  /\ last.headOn /\ ~last.outside
  /\ health = last.health0 - collisionDamage
  /\ grindOffset = last.grind0 + headOnGrind
  /\ lastHitFrame = frameCount

\* C32: an update() that applies a turn appends the position held before the
\* movement to the trail, with the current frame as its age, emits the
\* segment from the previous last waypoint to that position, changes the
\* rotation by one quarter turn (+ for left, - for right), sets lastTurnFrame
\* to the current frame, and moves the bike along the new heading: a left
\* turn takes the heading (x, z) to (z, -x), a right turn to (-z, x).
TurnEffects ==
  [][ (alive /\ last'.op = "update" /\ last'.turned) =>
        /\ Len(turnQueue) > 0
        /\ trail'[Len(trail') - (IF updateAlive.grew THEN 1 ELSE 0)] = position
        /\ trailFrames'[Len(trailFrames') - (IF updateAlive.grew THEN 1 ELSE 0)]
              = frameCount'
        /\ Len(newTrailSegments') > Len(newTrailSegments)
        /\ newTrailSegments'[Len(newTrailSegments) + 1]
              = [start |-> trail[Len(trail)], end |-> position]
        /\ rotation' = IF Head(turnQueue) = "left" THEN rotation + 1
                                                   ELSE rotation - 1
        /\ lastTurnFrame' = frameCount'
        /\ updateAlive.candidate
              = IF Head(turnQueue) = "left"
                  THEN Vec(position.x + Direction(rotation).z
                                          * CurrentSpeed(isBraking', brakeEnergy'),
                           position.z - Direction(rotation).x
                                          * CurrentSpeed(isBraking', brakeEnergy'))
                  ELSE Vec(position.x - Direction(rotation).z
                                          * CurrentSpeed(isBraking', brakeEnergy'),
                           position.z + Direction(rotation).x
                                          * CurrentSpeed(isBraking', brakeEnergy')) ]_vars

\* C32 as amended: the segment is emitted when the trail holds a waypoint at
\* the start of the update; on an empty trail (every waypoint has aged out)
\* the turn appends its waypoint and emits nothing.
TurnEffectsOnTrail ==
  [][ (alive /\ last'.op = "update" /\ last'.turned) =>
        /\ Len(turnQueue) > 0
        /\ trail'[Len(trail') - (IF updateAlive.grew THEN 1 ELSE 0)] = position
        /\ trailFrames'[Len(trailFrames') - (IF updateAlive.grew THEN 1 ELSE 0)]
              = frameCount'
        /\ IF Len(trail) > 0
             THEN /\ Len(newTrailSegments') > Len(newTrailSegments)
                  /\ newTrailSegments'[Len(newTrailSegments) + 1]
                        = [start |-> trail[Len(trail)], end |-> position]
             ELSE Len(newTrailSegments')
                    = Len(newTrailSegments) + (IF updateAlive.grew THEN 1 ELSE 0)
        /\ rotation' = IF Head(turnQueue) = "left" THEN rotation + 1
                                                   ELSE rotation - 1
        /\ lastTurnFrame' = frameCount'
        /\ updateAlive.candidate
              = IF Head(turnQueue) = "left"
                  THEN Vec(position.x + Direction(rotation).z
                                          * CurrentSpeed(isBraking', brakeEnergy'),
                           position.z - Direction(rotation).x
                                          * CurrentSpeed(isBraking', brakeEnergy'))
                  ELSE Vec(position.x - Direction(rotation).z
                                          * CurrentSpeed(isBraking', brakeEnergy'),
                           position.z + Direction(rotation).x
                                          * CurrentSpeed(isBraking', brakeEnergy')) ]_vars

\* a turn applied on an empty trail: the update has emitted no segment
EmptyTrailTurnWitness ==
  /\ last.op = "update" /\ last.alive0 /\ last.turned
  /\ last.pendSegs = << >>
  /\ Len(trail) = 1 /\ trail[1] # position

\* a left and then a right turn have been applied, the second by the last
\* update, away from the origin
TurnEffectsWitness ==
  /\ last.op = "update" /\ last.alive0 /\ last.turned
  /\ Len(applied) = 2
  /\ applied[1].dir = "left" /\ applied[2].dir = "right"
  /\ lastTurnFrame = frameCount
  /\ \E i \in 1..Len(trail) : trail[i].x # 0

\* the length of the step from the position to the candidate position of the
\* update about to run (the heading is along an axis)
StepLength ==
  Abs(updateAlive.candidate.x - position.x)
    + Abs(updateAlive.candidate.z - position.z)

\* the step is v = bikeSpeed * (1 - (energyUsed / brakeMaxEnergy)
\*                                   * (1 - brakeSpeedReduction)) at energy e
ReducedStep(v, e) ==
  v * 100 * config.brakeMaxEnergy
    = config.bikeSpeed
        * (100 * config.brakeMaxEnergy
             - (config.brakeMaxEnergy - e) * (100 - config.brakeSpeedReductionPct))

BrakeStepDepletedWitness ==
  /\ last.op = "update" /\ last.alive0
  /\ last.braking0 /\ last.energy0 > 0
  /\ brakeEnergy = 0

\* C34: with the default configuration and update() called on every frame,
\* the count ceiling never removes a waypoint younger than trailMaxFrames: on
\* an update on which the count loop removed a waypoint, even the oldest
\* waypoint left is at least trailMaxFrames old.
CapIsSafetyNet ==
  (last.op = "update" /\ last.alive0 /\ last.capped) =>
    /\ Len(last.born) > 0
    /\ frameCount - last.born[1] >= config.trailMaxFrames

\* the tested segments of the probed trail that pass the candidate closer
\* than the collision distance (segments shorter than 0.01 are not tested)
ProbeNearTested ==
  {i \in 1..(Len(probe.trail) - segmentsToSkip - 1) :
     /\ Dist2(probe.trail[i], probe.trail[i + 1]) >= minSegLength * minSegLength
     /\ ProbeNear(i)}

\* the point at the distance collisionDist + 0.01 from segment i of the probed
\* trail, on the side of the candidate
ProbeSafePoint(i) ==
  LET closest == ClosestPoint(probe.position, probe.trail[i], probe.trail[i + 1])
      pushDir == Sub(probe.position, closest)
  IN  Vec(closest.x + RoundDiv(pushDir.x * (collisionDist + safeExtra) * 100,
                               Len100(pushDir)),
          closest.z + RoundDiv(pushDir.z * (collisionDist + safeExtra) * 100,
                               Len100(pushDir)))

\* C35: in a check with no wall contact the grind-depth bypass never engages:
\* a tested segment closer than the collision distance yields hit = true
\* whatever the grind offset.  The bypass engages only when a wall was hit in
\* the same check and grindOffset exceeds the depth recorded for that wall
\* plus 0.01; then all trail contacts are ignored and the result is that of
\* the walls alone.  With a wall hit and a grind offset that small, a trail
\* contact whose safe point lies farther from the candidate than the wall
\* correction gives the result its normal.
GrindBypassNeedsWall ==
  probe # NoProbe =>
    /\ ~ProbeBeyondWall => (probe.result.hit <=> ProbeNearTested # {})
    /\ ProbeBeyondWall => probe.result.hit
    /\ (ProbeBeyondWall
          /\ probe.grindOffset > GrindDepth(CheckBoundary(probe.position).wallKey)
                                   + passMargin)
         => /\ probe.result.corrected = clampToBoundary(probe.position)
            /\ probe.result.normal.scale = PosScale
    /\ (ProbeBeyondWall
          /\ ~(probe.grindOffset > GrindDepth(CheckBoundary(probe.position).wallKey)
                                     + passMargin)
          /\ \E i \in ProbeNearTested :
                /\ AxisDist2(probe.position, probe.trail[i], probe.trail[i + 1]) > 0
                /\ Dist2(ProbeSafePoint(i), probe.position)
                     > Dist2(clampToBoundary(probe.position), probe.position))
         => probe.result.normal.scale = collisionDist + safeExtra

\* a candidate beyond a wall and within the collision distance of a tested
\* segment, probed with a grind offset of 0.1: the trail contact is ignored
GrindBypassWitness ==
  /\ probe # NoProbe
  /\ ProbeBeyondWall
  /\ probe.grindOffset > passMargin
  /\ ProbeNearTested # {}
  /\ probe.result.corrected = clampToBoundary(probe.position)

\* a wall contact with grind offset 0 and a trail contact that is selected
GrindWallAndTrailWitness ==
  /\ probe # NoProbe
  /\ ProbeBeyondWall
  /\ probe.grindOffset = 0
  /\ ProbeNearTested # {}
  /\ probe.result.normal.scale = collisionDist + safeExtra

\* the same grind offset with no wall contact: the trail contact is reported
GrindNoBypassWitness ==
  /\ probe # NoProbe
  /\ ~ProbeBeyondWall
  /\ probe.grindOffset > passMargin
  /\ ProbeNearTested # {}
  /\ probe.result.hit
  /\ probe.result.corrected # probe.position

\* C36: at the end of every update() the number of new-segment events emitted
\* since construction or the last reset() minus the removals counted in that
\* period is trail length - 1 (no event has been drained, so both queues hold
\* the totals).
SegmentAccounting ==
  last.op = "update" =>
    Len(newTrailSegments) - segmentsToRemove = Len(trail) - 1

\* C37: at the end of every update() a bike that is alive with health <= 0
\* has graceFramesRemaining > 0, and graceFramesRemaining > 0 only for a bike
\* that is alive with health <= 0.
GraceIffAliveAtZero ==
  last.op = "update" =>
    ((alive /\ health <= 0) <=> graceFramesRemaining > 0)

\* an update has left a living bike with no health inside its grace period
GraceIffAliveAtZeroWitness ==
  /\ last.op = "update"
  /\ alive
  /\ health <= 0
  /\ graceFramesRemaining > 0
  /\ graceFramesRemaining < config.graceFrames

\* an update has ended the grace period: the bike is dead and the countdown
\* is not above 0
GraceExpiredWitness ==
  /\ last.op = "update"
  /\ last.alive0
  /\ ~alive
  /\ health <= 0
  /\ graceFramesRemaining <= 0

\* C38: after construction or reset() no turn is applied during the first
\* turnDelayFrames - 1 updates, and a turn queued before the first update is
\* first applied on update number turnDelayFrames (frameCount counts the
\* updates since construction or the last reset()).
InitialTurnDelay ==
  /\ \A i \in 1..Len(applied) : applied[i].frame >= config.turnDelayFrames
  /\ \A i \in 1..Len(applied) :
        (applied[i].queued = 0 /\ applied[i].k = 1) =>
          applied[i].frame = config.turnDelayFrames
  /\ alive => \A i \in 1..Len(queuedAt) :
                (queuedAt[i].frame = 0 /\ queuedAt[i].k = 1) =>
                  frameCount < config.turnDelayFrames

\* a turn queued before the first update of a constructed engine was applied
\* on update number turnDelayFrames, after an update that applied none
InitialTurnDelayWitness ==
  /\ config.turnDelayFrames > 1
  /\ Len(trailFrames) < Len(trail)
  /\ Len(applied) = 1
  /\ applied[1].queued = 0
  /\ applied[1].frame = config.turnDelayFrames
  /\ last.op = "update" /\ last.turned

\* the same after reset(), where trailFrames starts with one entry
InitialTurnDelayResetWitness ==
  /\ config.turnDelayFrames > 1
  /\ Len(trailFrames) = Len(trail)
  /\ Len(applied) = 1
  /\ applied[1].queued = 0
  /\ applied[1].frame = config.turnDelayFrames
  /\ last.op = "update" /\ last.turned

\* the bike is pressed into the wall w: it stands grindOffset beyond the
\* limit on the axis of w and within the limit on the other axis
Pressed(w) ==
  LET limit == config.boundaryLimit - bikeHalfWidth
      along == IF w \in {"x1", "x-1"} THEN position.x ELSE position.z
      across == IF w \in {"x1", "x-1"} THEN position.z ELSE position.x
      sgn == IF w \in {"x1", "z1"} THEN 1 ELSE -1
  IN  /\ grindOffset > 0
      /\ along = sgn * (limit + grindOffset)
      /\ Abs(across) <= limit

\* the candidate position p is beyond the limit of the wall w
BeyondWall(p, w) ==
  LET limit == config.boundaryLimit - bikeHalfWidth
  IN  CASE w = "x1" -> p.x > limit
        [] w = "x-1" -> p.x < -limit
        [] w = "z1" -> p.z > limit
        [] w = "z-1" -> p.z < -limit

\* the candidate position p touches exactly the wall w and no trail segment
OnlyWall(p, c, w) ==
  LET b == CheckBoundary(p)
  IN  /\ BeyondWall(p, w)
      /\ \A v \in {"x1", "x-1", "z1", "z-1"} : BeyondWall(p, v) => v = w
      /\ c.normal = b.normal
      /\ c.corrected = Vec(b.cx, b.cz)

\* C39: an update that reports contact with exactly one boundary wall leaves
\* the bike pressed into that wall; once the bike is pressed into a wall with
\* grindOffset greater than the per-frame step bikeSpeed, every update of the
\* living bike reports contact with that wall, whatever the heading and the
\* brake, and unless it also touches a perpendicular wall or the trail it
\* leaves the bike pressed into the wall with a grindOffset that is no
\* smaller, hence never 0.
WallHolds ==
  [][ (alive /\ last'.op = "update") =>
        \A w \in {"x1", "x-1", "z1", "z-1"} :
          /\ OnlyWall(updateAlive.candidate, updateAlive.collision, w) =>
                (updateAlive.contact /\ Pressed(w)')
          /\ (Pressed(w) /\ grindOffset > config.bikeSpeed) =>
                /\ updateAlive.contact
                /\ BeyondWall(updateAlive.candidate, w)
                /\ OnlyWall(updateAlive.candidate, updateAlive.collision, w) =>
                      (Pressed(w)' /\ grindOffset' >= grindOffset) ]_vars

\* the bike is pressed into the +z wall with a grindOffset above its step and
\* heads directly away from the wall: the update has kept it there
WallHoldsWitness ==
  /\ last.op = "update" /\ last.contact /\ last.alive0
  /\ last.grind0 > config.bikeSpeed
  /\ rotation % 4 = 2
  /\ Pressed("z1")

\* C40: with graceFrames < regenDelayFrames, once health has reached 0 on an
\* update with a head-on hit (the grace period started at a frame that is not
\* later than the last hit), no update of the living bike brings health above
\* 0 again, and the bike does not stay alive for graceFrames further updates,
\* whatever is steered or braked.
CollisionGraceFatal ==
  [][ (alive /\ health <= 0 /\ lastHitFrame >= last.graceStart
         /\ last'.op = "update") =>
        /\ health' <= 0
        /\ alive' => frameCount' - last.graceStart < config.graceFrames ]_vars

\* the grace period after a head-on hit took the last health: an update left
\* the living bike inside the zone with no contact, where only the
\* regeneration delay kept the health at 0
CollisionGraceWitness ==
  /\ last.op = "update" /\ alive /\ health <= 0
  /\ lastHitFrame >= last.graceStart
  /\ last.graceStart > 0
  /\ frameCount > lastHitFrame
  /\ ~last.outside /\ ~last.headOn

\* the same grace period has ended: the bike is dead
CollisionGraceDeadWitness ==
  /\ last.op = "update" /\ last.alive0 /\ ~alive
  /\ lastHitFrame >= last.graceStart
  /\ last.graceStart > 0
  /\ ~last.outside /\ ~last.headOn

=============================================================================
